---- MODULE Spec2Model ----
(***************************************************************************)
(* Verification model of the per-request execution core of CLIProxyAPI:    *)
(*   - the tool-call runtime and its idempotency store (toolcall package), *)
(*   - the Codex prompt-cache coordinator (local map + distributed store), *)
(*   - the streaming producers of the HTTP executors,                      *)
(*   - the Codex WebSocket executor and its execution sessions,            *)
(*   - the Gemini CLI executor's token handling and model fallback,        *)
(*   - the writers of a Codex WebSocket connection,                        *)
(*   - the Codex HTTP executor's non-streaming call.                       *)
(* Each part has its own specification over its own variables; the other   *)
(* parts' variables stay at their initial values.                          *)
(***************************************************************************)
EXTENDS Integers, Sequences, FiniteSets, TLC

VARIABLES
    \* ---- tool-call runtime (internal/runtime/toolcall) ----
    records,      \* MemoryStore.records: call_id -> Record
    tpc,          \* per Execute invocation: position in Runtime.Execute
    treq,         \* per Execute invocation: the CallRequest (after TrimSpace)
    tres,         \* per Execute invocation: the Result returned
    tpending,     \* per Execute invocation: the record about to be completed
    texecErr,     \* per Execute invocation: what callHandler returned (execErr)
    handlerRuns,  \* per Execute invocation: number of times def.Handler ran
    tpolicy,      \* Runtime.DuplicateCompletedPolicy
    \* ---- Codex prompt-cache coordinator ----
    credis,       \* the distributed store: redis key -> stored value
    clocal,       \* codexCacheMap of each proxy process: key -> cache id
    cdistributed, \* cfg.CodexPromptCache.RedisURL is set
    csequential,  \* the calls are made one after the other by one process
    cpc,          \* per call: position in the resolution
    creq,         \* per call: source format, request payload, model, body
    ckey,         \* per call: the derived key "{model}-{user}"
    cattempt,     \* per call: loop variable of getOrCreateCodexPromptCacheRedis
    cres,         \* per call: what applyCodexPromptCache returned
    cdeletes,     \* per call: deletes issued to the store
    cpasses,      \* per call: passes of the loop begun
    cvia,         \* per call: "redis", "local" or "" (who supplied the id)
    cafter,       \* per call: the calls that had returned when it began
    cstored,      \* the values set-if-absent has stored, in order
    cenv          \* what the environment did: store errors, blank writes, expiries

toolVars == <<records, tpc, treq, tres, tpending, texecErr, handlerRuns, tpolicy>>

\* HTTP streaming producer (BaseExecutor, Gemini CLI executor).
VARIABLES skind, sctx, sconsumer, spc, sleft, slines, sscanErr, sreceived,
          sclosed, sbodyClosed, sfailure

streamVars == <<skind, sctx, sconsumer, spc, sleft, slines, sscanErr, sreceived,
                sclosed, sbodyClosed, sfailure>>

\* Codex WebSocket executor: the session map, the session objects, the
\* upstream connections with their reader goroutines, the requests, the number
\* of events the environment has produced (CloseExecutionSession calls,
\* upstream disconnects, cancellations), and whether the process has panicked.
VARIABLES wsessions, wsess, wconns, wrq, wenv, wpanic

wsVars == <<wsessions, wsess, wconns, wrq, wenv, wpanic>>

\* Gemini CLI executor, one call: the credential passed (auth.Runtime's kind
\* and auth.Metadata), the metadata it had when it was passed, the shared
\* credential's metadata, the position in the call, the request, the token
\* source's cached token and whether it has expired, the index of the model
\* attempt, the models tried, the result, the token expiries so far, and the
\* usage publications made.
VARIABLES gauth, gpassed, gshared, gpc, greq, gtok, gexpired, gidx, gtried,
          gres, genv, gpublished

gcliVars == <<gauth, gpassed, gshared, gpc, greq, gtok, gexpired, gidx, gtried,
              gres, genv, gpublished>>

\* Writers of Codex WebSocket connections: whether the request runs in an
\* execution session, the holder of sess.writeMu, what each goroutine is
\* writing and to which connection, the pings not yet answered on each
\* connection, and how far the request has got.
VARIABLES pwSession, pwMu, pwpc, pwconn, pwpings, pwphase, pwseen

writeVars == <<pwSession, pwMu, pwpc, pwconn, pwpings, pwphase, pwseen>>

\* Codex HTTP executor, one non-streaming call (executeViaStream): the lines
\* of the body the upstream answers with, the position in the call, the data
\* io.ReadAll returned, the index of the line the loop is at, the response
\* and the error returned, and the usage publications made.
VARIABLES xbody, xpc, xdata, xline, xresp, xerr, xpublished

viaVars == <<xbody, xpc, xdata, xline, xresp, xerr, xpublished>>

\* codexPromptCacheEffectiveTTL, one call: the prompt_cache_retention of the
\* request payload, cfg.CodexPromptCache.TTLSeconds (or no cfg), the position
\* in the call and the duration returned, in seconds.
VARIABLES eret, ecfg, epc, ettl

ttlVars == <<eret, ecfg, epc, ettl>>

\* ---- derived cache key (getOrCreateCodexPromptCacheID) ----
\* Per call: the model and user id passed, and the key formatted from them.
VARIABLES kreq, kkey

keyVars == <<kreq, kkey>>

cacheVars ==
    <<credis, clocal, cdistributed, csequential, cpc, creq, ckey, cattempt, cres,
      cdeletes, cpasses, cvia, cafter, cstored, cenv>>

vars == <<toolVars, cacheVars, streamVars, wsVars, gcliVars, writeVars, viaVars, ttlVars, keyVars>>

\* What the steps of one component leave alone: the other components' state.
outsideTool == <<cacheVars, streamVars, wsVars, gcliVars, writeVars, viaVars, ttlVars, keyVars>>
outsideCache == <<toolVars, streamVars, wsVars, gcliVars, writeVars, viaVars, ttlVars, keyVars>>
outsideStream == <<toolVars, cacheVars, wsVars, gcliVars, writeVars, viaVars, ttlVars, keyVars>>
outsideWS == <<toolVars, cacheVars, streamVars, gcliVars, writeVars, viaVars, ttlVars, keyVars>>
outsideGCLI == <<toolVars, cacheVars, streamVars, wsVars, writeVars, viaVars, ttlVars, keyVars>>
outsideWrite == <<toolVars, cacheVars, streamVars, wsVars, gcliVars, viaVars, ttlVars, keyVars>>
outsideVia == <<toolVars, cacheVars, streamVars, wsVars, gcliVars, writeVars, ttlVars, keyVars>>
outsideTTL == <<toolVars, cacheVars, streamVars, wsVars, gcliVars, writeVars, viaVars, keyVars>>
outsideKey == <<toolVars, cacheVars, streamVars, wsVars, gcliVars, writeVars, viaVars, ttlVars>>

(***************************************************************************)
(*                        TOOL-CALL RUNTIME                                *)
(***************************************************************************)

\* Number of Execute invocations (goroutines calling Runtime.Execute).
NumCalls == 3

Calls == 1..NumCalls

\* Raw call ids a caller may pass, blank and padded ones included.
RawCallIDs == {"", "c1", " c1 "}

\* Tool names a caller may pass; only "search_docs" is registered.
RawToolNames == {"", "search_docs", "missing"}

\* Raw argument strings: two that satisfy the schema of search_docs
\* ({"query": string, required}) and one that violates it.
ArgsA == "{\"query\":\"a\"}"
ArgsB == "{\"query\":\"b\"}"
ArgsBad == "{\"query\":1}"
RawArgs == {ArgsA, ArgsB, ArgsBad}

\* strings.TrimSpace on the identifiers the model passes in.
TrimSpace(s) ==
    CASE s = " c1 " -> "c1"
      [] s = " " -> ""
      [] OTHER -> s

\* Registry.Get: the registered definitions.
Registered == {"search_docs"}

lookup(name) == name \in Registered

\* hashArgs: sha256 of the raw arguments, hex encoded; distinct raw strings of
\* the model have distinct digests.
hashArgs(raw) ==
    CASE raw = ArgsA -> "h:a"
      [] raw = ArgsB -> "h:b"
      [] raw = ArgsBad -> "h:bad"
      [] OTHER -> "h:other"

\* validateCallRequest: the error code, or "" when the request is well formed.
validateCallRequest(req) ==
    IF TrimSpace(req.CallID) = "" THEN "invalid_request"
    ELSE IF TrimSpace(req.ToolName) = "" THEN "invalid_request"
    ELSE ""

\* Mutant of validateAgainstDefinition: every argument object is accepted.
validateAgainstDefinitionAcceptsAll(tool, raw) == TRUE

\* validateAgainstDefinition: TRUE iff the raw arguments satisfy the schema.
validateAgainstDefinition(tool, raw) ==
    tool = "search_docs" /\ raw \in {ArgsA, ArgsB}

Terminal == {"succeeded", "failed", "timeout", "canceled"}

\* EnvelopeMeta flags of the envelope a record carries.
NoMeta == [ValidationFailed |-> FALSE, TimedOut |-> FALSE, Canceled |-> FALSE]

NoRecord ==
    [Status |-> "", ToolName |-> "", ArgsHash |-> "", ErrorCode |-> "",
     Retryable |-> FALSE, Meta |-> NoMeta]

NoRequest == [CallID |-> "", ToolName |-> "", RawArguments |-> ""]

NoResult ==
    [Code |-> "", Status |-> "", Duplicate |-> FALSE, ReplayCached |-> FALSE,
     Conflict |-> FALSE, Retryable |-> FALSE, ValidationFailed |-> FALSE,
     TimedOut |-> FALSE, Canceled |-> FALSE, returned |-> FALSE]

\* failureResult: the Result of a failed call.
failureResult(status, code, retryable, dup, conflict) ==
    [Code |-> code, Status |-> status, Duplicate |-> dup, ReplayCached |-> FALSE,
     Conflict |-> conflict, Retryable |-> retryable, ValidationFailed |-> FALSE,
     TimedOut |-> FALSE, Canceled |-> FALSE, returned |-> TRUE]

\* The record failureResult builds for the store.
failureRecord(req, toolName, status, code, retryable, meta) ==
    [Status |-> status, ToolName |-> toolName,
     ArgsHash |-> hashArgs(req.RawArguments), ErrorCode |-> code,
     Retryable |-> retryable, Meta |-> meta]

\* Record.Envelope: the envelope a completed record carries.
EnvelopeOf(rec) ==
    [Code |-> rec.ErrorCode, Status |-> rec.Status,
     Duplicate |-> FALSE, ReplayCached |-> FALSE, Conflict |-> FALSE,
     Retryable |-> rec.Retryable,
     ValidationFailed |-> rec.Meta.ValidationFailed,
     TimedOut |-> rec.Meta.TimedOut,
     Canceled |-> rec.Meta.Canceled,
     returned |-> TRUE]

\* What the handler can do, as classifyHandlerError and callHandler see it.
HandlerOutcomes ==
    {"ok", "deadline_exceeded", "context_canceled", "tool_error", "error", "panic"}

\* Mutant of classifyHandlerError: a deadline error is not told from any other
\* error.
classifyHandlerErrorNoDeadline(outcome) ==
    CASE outcome = "context_canceled" ->
             <<"canceled", "canceled", TRUE, [NoMeta EXCEPT !.Canceled = TRUE]>>
      [] outcome = "tool_error" -> <<"failed", "tool_error", FALSE, NoMeta>>
      [] outcome = "panic" -> <<"failed", "panic", FALSE, NoMeta>>
      [] OTHER -> <<"failed", "handler_error", FALSE, NoMeta>>

\* classifyHandlerError (and callHandler's recover, whose ToolError it passes
\* through): <<status, code, retryable, meta>>.
classifyHandlerError(outcome) ==
    CASE outcome = "deadline_exceeded" ->
             <<"timeout", "timeout", TRUE, [NoMeta EXCEPT !.TimedOut = TRUE]>>
      [] outcome = "context_canceled" ->
             <<"canceled", "canceled", TRUE, [NoMeta EXCEPT !.Canceled = TRUE]>>
      [] outcome = "tool_error" -> <<"failed", "tool_error", FALSE, NoMeta>>
      [] outcome = "panic" -> <<"failed", "panic", FALSE, NoMeta>>
      [] OTHER -> <<"failed", "handler_error", FALSE, NoMeta>>

\* Runtime.DuplicateCompletedPolicy: unset, return_cached or fail.
RuntimePolicies == {"", "return_cached", "fail"}

\* Mutant of duplicateCompletedPolicy: the configured policy is ignored.
duplicateCompletedPolicyAlwaysCached(policy) == "return_cached"

\* Runtime.duplicateCompletedPolicy: the zero value is return_cached.
duplicateCompletedPolicy(policy) == IF policy = "" THEN "return_cached" ELSE policy

\* Mutant of StoreHas: Begin that never reports an existing record (it inserts
\* the seed over whatever is stored).
StoreHasNever(callID) == FALSE

\* MemoryStore.Begin: the existing record and whether the seed is a duplicate.
StoreHas(callID) == records[callID].Status # ""

\* MemoryStore.Complete: the record replaces whatever the store holds.
Complete(callID, rec) == [records EXCEPT ![callID] = rec]

\* Mutant of handleDuplicate: the args_hash of the existing record is not
\* compared.
handleDuplicateIgnoringHash(existing, seedHash) ==
    IF existing.Status # "" /\ existing.Status # "started"
    THEN [EnvelopeOf(existing) EXCEPT !.Duplicate = TRUE, !.ReplayCached = TRUE]
    ELSE failureResult("duplicate", "duplicate_in_flight", TRUE, TRUE, FALSE)

\* Runtime.handleDuplicate on an existing record: the Result returned.
handleDuplicate(existing, seedHash) ==
    IF existing.ArgsHash # "" /\ seedHash # "" /\ existing.ArgsHash # seedHash
    THEN failureResult("duplicate", "duplicate_call_id_conflict", FALSE, TRUE, TRUE)
    ELSE IF existing.Status # "" /\ existing.Status # "started"
    THEN IF duplicateCompletedPolicy(tpolicy) = "fail"
         THEN failureResult("duplicate", "duplicate_call_id_conflict", FALSE, TRUE, TRUE)
         ELSE [EnvelopeOf(existing) EXCEPT !.Duplicate = TRUE, !.ReplayCached = TRUE]
    ELSE failureResult("duplicate", "duplicate_in_flight", TRUE, TRUE, FALSE)

TInit ==
    /\ records = [c \in {"c1"} |-> NoRecord]
    /\ tpc = [p \in Calls |-> "idle"]
    /\ treq = [p \in Calls |-> NoRequest]
    /\ tres = [p \in Calls |-> NoResult]
    /\ tpending = [p \in Calls |-> NoRecord]
    /\ texecErr = [p \in Calls |-> "none"]
    /\ handlerRuns = [p \in Calls |-> 0]
    /\ tpolicy \in RuntimePolicies

\* Runtime.Execute up to and including handleDuplicate (Store.Begin).
Execute(p, rawCallID, rawTool, raw) ==
    LET req == [CallID |-> TrimSpace(rawCallID), ToolName |-> TrimSpace(rawTool),
                RawArguments |-> raw]
        invalid == validateCallRequest(req)
    IN
    /\ UNCHANGED outsideTool
    /\ tpc[p] = "idle"
    /\ \A q \in Calls : q < p => tpc[q] # "idle"
    /\ treq' = [treq EXCEPT ![p] = req]
    /\ UNCHANGED <<handlerRuns, tpending, texecErr, tpolicy>>
    /\ IF invalid # ""
       THEN /\ tres' = [tres EXCEPT ![p] =
                            failureResult("failed", invalid, FALSE, FALSE, FALSE)]
            /\ tpc' = [tpc EXCEPT ![p] = "done"]
            /\ UNCHANGED records
       ELSE IF ~lookup(req.ToolName)
       THEN /\ tres' = [tres EXCEPT ![p] =
                            failureResult("failed", "unknown_tool", FALSE, FALSE, FALSE)]
            /\ records' = Complete(req.CallID,
                              failureRecord(req, req.ToolName, "failed", "unknown_tool",
                                            FALSE, NoMeta))
            /\ tpc' = [tpc EXCEPT ![p] = "done"]
       ELSE IF StoreHas(req.CallID)
       THEN /\ tres' = [tres EXCEPT ![p] =
                            handleDuplicate(records[req.CallID], hashArgs(raw))]
            /\ tpc' = [tpc EXCEPT ![p] = "done"]
            /\ UNCHANGED records
       ELSE /\ records' = [records EXCEPT ![req.CallID] =
                              [Status |-> "started", ToolName |-> req.ToolName,
                               ArgsHash |-> hashArgs(raw), ErrorCode |-> "",
                               Retryable |-> FALSE, Meta |-> NoMeta]]
            /\ tpc' = [tpc EXCEPT ![p] = "validate"]
            /\ UNCHANGED tres

\* Runtime.Execute: validateAgainstDefinition and its failure path.
ValidateArguments(p) ==
    /\ UNCHANGED outsideTool
    /\ tpc[p] = "validate"
    /\ UNCHANGED <<treq, handlerRuns, tpending, texecErr, tpolicy>>
    /\ IF validateAgainstDefinition(treq[p].ToolName, treq[p].RawArguments)
       THEN /\ tpc' = [tpc EXCEPT ![p] = "handler"]
            /\ UNCHANGED <<records, tres>>
       ELSE /\ tres' = [tres EXCEPT ![p] =
                            [failureResult("failed", "validation_error", FALSE, FALSE, FALSE)
                                EXCEPT !.ValidationFailed = TRUE]]
            /\ records' = Complete(treq[p].CallID,
                              failureRecord(treq[p], treq[p].ToolName, "failed",
                                            "validation_error", FALSE,
                                            [NoMeta EXCEPT !.ValidationFailed = TRUE]))
            /\ tpc' = [tpc EXCEPT ![p] = "done"]

\* Runtime.callHandler: the handler runs (and returns, fails or panics).
CallHandler(p, outcome) ==
    /\ UNCHANGED outsideTool
    /\ tpc[p] = "handler"
    /\ handlerRuns' = [handlerRuns EXCEPT ![p] = @ + 1]
    /\ texecErr' = [texecErr EXCEPT ![p] = outcome]
    /\ tpending' = [tpending EXCEPT ![p] =
          IF outcome = "ok"
          THEN [Status |-> "succeeded", ToolName |-> treq[p].ToolName,
                ArgsHash |-> hashArgs(treq[p].RawArguments), ErrorCode |-> "",
                Retryable |-> FALSE, Meta |-> NoMeta]
          ELSE failureRecord(treq[p], treq[p].ToolName,
                             classifyHandlerError(outcome)[1],
                             classifyHandlerError(outcome)[2],
                             classifyHandlerError(outcome)[3],
                             classifyHandlerError(outcome)[4])]
    /\ tpc' = [tpc EXCEPT ![p] = "complete"]
    /\ UNCHANGED <<records, treq, tres, tpolicy>>

\* Runtime.Execute after the handler: completeStore and the Result.
CompleteStore(p) ==
    /\ UNCHANGED outsideTool
    /\ tpc[p] = "complete"
    /\ records' = Complete(treq[p].CallID, tpending[p])
    /\ tres' = [tres EXCEPT ![p] = EnvelopeOf(tpending[p])]
    /\ tpc' = [tpc EXCEPT ![p] = "done"]
    /\ UNCHANGED <<treq, tpending, texecErr, handlerRuns, tpolicy>>

\* Runtime.emit between Store.Begin and completeStore (EventStart,
\* EventValidateStart, EventValidateDone, EventExecuteStart): the Hook's
\* OnToolEvent panics, and Execute, which recovers only in callHandler,
\* unwinds.
HookPanics(p) ==
    /\ UNCHANGED outsideTool
    /\ tpc[p] \in {"validate", "handler"}
    /\ tpc' = [tpc EXCEPT ![p] = "unwound"]
    /\ UNCHANGED <<records, treq, tres, tpending, texecErr, handlerRuns, tpolicy>>

TNext ==
    \/ \E p \in Calls, c \in RawCallIDs, t \in RawToolNames, a \in RawArgs :
          Execute(p, c, t, a)
    \/ \E p \in Calls : ValidateArguments(p)
    \/ \E p \in Calls, o \in HandlerOutcomes : CallHandler(p, o)
    \/ \E p \in Calls : CompleteStore(p)


(***************************************************************************)
(*                   CODEX PROMPT-CACHE COORDINATOR                        *)
(***************************************************************************)

\* Number of calls that resolve a cache id.
NumCacheCalls == 2

\* Bounds on what the environment does to the distributed store during a run.
MaxStoreErrors == 1
MaxBlankWrites == 2
MaxExpiries == 1

CacheCalls == 1..NumCacheCalls

SourceFormats == {"claude", "codex"}

Models == {"gpt-5", "gpt-4.1"}

Users == {"", "user-123"}

\* gjson result of "prompt_cache_retention": absent, or a typed value.
RetAbsent == [type |-> "absent", num |-> 0, str |-> ""]
RetOff == [type |-> "string", num |-> 0, str |-> "off"]
RetFive == [type |-> "number", num |-> 5, str |-> ""]
Retentions == {RetAbsent, RetOff, RetFive}

\* With the further values of the field: JSON false, JSON null and the empty
\* string.
AllRetentions ==
    Retentions \cup {[type |-> "false", num |-> 0, str |-> ""],
                     [type |-> "null", num |-> 0, str |-> ""],
                     [type |-> "string", num |-> 0, str |-> ""]}

\* Request payloads: the fields the coordinator reads.
NoPayload == [prompt_cache_key |-> "", metadata_prompt_cache_key |-> "",
              prompt_cache_retention |-> RetAbsent,
              user_id |-> "", raw_empty |-> FALSE]

\* len(rawJSON) == 0: a body with no bytes has no fields.
EmptyBody == [NoPayload EXCEPT !.raw_empty = TRUE]

Payloads ==
    [prompt_cache_key : {"", "k1"}, metadata_prompt_cache_key : {""},
     prompt_cache_retention : Retentions,
     user_id : Users, raw_empty : {FALSE}] \cup {EmptyBody}

\* The inputs of one applyCodexPromptCache call in full: the request payload
\* with a top-level and a metadata prompt_cache_key (absent, blank, or a key
\* with surrounding white space), any retention value and user id, and a
\* translated body (rawJSON) that is empty or not, whatever the payload holds.
AllPayloads ==
    [prompt_cache_key : {"", " ", " k1 "}, metadata_prompt_cache_key : {"", "k2"},
     prompt_cache_retention : AllRetentions,
     user_id : Users, raw_empty : BOOLEAN]

NoCacheRequest ==
    [from |-> "", payload |-> NoPayload, model |-> "", skipIfBodyEmpty |-> FALSE]

\* Values another writer may leave in the store that trim to nothing.
BlankValues == {"", " "}

\* A key the store does not hold (redis.Nil).
Missing == "<nil>"

\* strings.TrimSpace on the values the store can hold.
TrimValue(v) == IF v \in BlankValues THEN "" ELSE IF v = " k1 " THEN "k1" ELSE v

\* strings.ToLower(strings.TrimSpace(s)) on the retention strings of the model.
LowerTrim(str) == CASE str = "OFF" -> "off" [] str = " off " -> "off" [] OTHER -> str

\* explicitCodexPromptCacheKey.
explicitCodexPromptCacheKey(payload) ==
    IF TrimValue(payload.prompt_cache_key) # ""
    THEN TrimValue(payload.prompt_cache_key)
    ELSE TrimValue(payload.metadata_prompt_cache_key)

\* codexPromptCacheUserID.
codexPromptCacheUserID(payload) == TrimValue(payload.user_id)

\* cacheDisabledByRetention.
cacheDisabledByRetention(payload) ==
    LET ret == payload.prompt_cache_retention IN
    CASE ret.type = "absent" -> FALSE
      [] ret.type = "false" -> TRUE
      [] ret.type = "number" -> ret.num <= 0
      [] ret.type = "string" ->
            LowerTrim(ret.str) \in {"0", "off", "none", "false", "disabled", "disable", "no"}
      [] OTHER -> FALSE

\* cacheRetentionRequested.
cacheRetentionRequested(payload) ==
    payload.prompt_cache_retention.type # "absent" /\ ~cacheDisabledByRetention(payload)

\* The key of getOrCreateCodexPromptCacheID: fmt.Sprintf("%s-%s", model, userID).
DerivedKey(model, userID) == model \o "-" \o userID

CacheKeys == {DerivedKey(m, u) : m \in Models, u \in Users \ {""}}

\* Mutant of resolveCodexPromptCacheID: the retention value is looked at before
\* the explicit key.
resolveRetentionFirst(from, payload, model) ==
    IF cacheDisabledByRetention(payload) THEN <<"id", "">>
    ELSE IF explicitCodexPromptCacheKey(payload) # ""
    THEN <<"id", explicitCodexPromptCacheKey(payload)>>
    ELSE IF from # "claude" /\ ~cacheRetentionRequested(payload) THEN <<"id", "">>
    ELSE IF codexPromptCacheUserID(payload) # "" /\ TrimValue(model) # ""
         THEN <<"derive", DerivedKey(model, codexPromptCacheUserID(payload))>>
         ELSE <<"id", "">>

\* Mutant of resolveCodexPromptCacheID: a source other than Claude derives an
\* id without a retention hint.
resolveWithoutRetentionHint(from, payload, model) ==
    IF explicitCodexPromptCacheKey(payload) # ""
    THEN <<"id", explicitCodexPromptCacheKey(payload)>>
    ELSE IF cacheDisabledByRetention(payload) THEN <<"id", "">>
    ELSE IF codexPromptCacheUserID(payload) # "" /\ TrimValue(model) # ""
         THEN <<"derive", DerivedKey(model, codexPromptCacheUserID(payload))>>
         ELSE <<"id", "">>

\* resolveCodexPromptCacheID up to the call of getOrCreateCodexPromptCacheID:
\* <<"id", cache id>> when it returns at once, <<"derive", key>> otherwise.
resolveCodexPromptCacheID(from, payload, model) ==
    IF explicitCodexPromptCacheKey(payload) # ""
    THEN <<"id", explicitCodexPromptCacheKey(payload)>>
    ELSE IF cacheDisabledByRetention(payload) THEN <<"id", "">>
    ELSE IF from = "claude"
    THEN IF codexPromptCacheUserID(payload) # "" /\ TrimValue(model) # ""
         THEN <<"derive", DerivedKey(model, codexPromptCacheUserID(payload))>>
         ELSE <<"id", "">>
    ELSE IF ~cacheRetentionRequested(payload) THEN <<"id", "">>
    ELSE IF codexPromptCacheUserID(payload) # "" /\ TrimValue(model) # ""
         THEN <<"derive", DerivedKey(model, codexPromptCacheUserID(payload))>>
         ELSE <<"id", "">>

\* applyCodexPromptCache's return for a resolved cache id: the id, the body's
\* prompt_cache_key and the two headers.
applyCodexPromptCache(cacheID) ==
    [cache_id |-> cacheID, prompt_cache_key |-> cacheID,
     Conversation_id |-> cacheID, Session_id |-> cacheID, returned |-> TRUE]

NoCacheResult ==
    [cache_id |-> "", prompt_cache_key |-> "", Conversation_id |-> "",
     Session_id |-> "", returned |-> FALSE]

\* uuid.New / uuid.NewString: a value no other call of the run produces.
NewUUID(p, attempt, where) == "uuid-" \o where \o ToString(p) \o ToString(attempt)

\* The proxy process (and so the codexCacheMap) a call runs in.
ProcOf(p) == IF csequential THEN 1 ELSE p

RedisGetValueAlwaysMissing(key) == <<"", "missing">>

\* codexPromptCacheRedisGetValue: <<value, state>>.
codexPromptCacheRedisGetValue(key) ==
    IF credis[key] = Missing THEN <<"", "missing">>
    ELSE IF TrimValue(credis[key]) = "" THEN <<"", "invalid">>
    ELSE <<TrimValue(credis[key]), "valid">>

SetNXAlways(current) == TRUE

\* codexPromptCacheRedisSetNX: the store sets the key only when it holds none.
codexPromptCacheRedisSetNX(current) == current = Missing

CParked ==
    /\ credis = [k \in CacheKeys |-> Missing]
    /\ clocal = [q \in CacheCalls |-> [k \in CacheKeys |-> ""]]
    /\ cpc = [p \in CacheCalls |-> "idle"]
    /\ creq = [p \in CacheCalls |-> NoCacheRequest]
    /\ ckey = [p \in CacheCalls |-> ""]
    /\ cattempt = [p \in CacheCalls |-> 0]
    /\ cres = [p \in CacheCalls |-> NoCacheResult]
    /\ cdeletes = [p \in CacheCalls |-> 0]
    /\ cpasses = [p \in CacheCalls |-> 0]
    /\ cvia = [p \in CacheCalls |-> ""]
    /\ cafter = [p \in CacheCalls |-> {}]
    /\ cstored = {}
    /\ cenv = [errors |-> 0, blanks |-> 0, expiries |-> 0]

CacheDone == {p \in CacheCalls : cpc[p] = "done"}

\* The call returns cache id `id` to its caller.
CacheReturn(p, id, via) ==
    /\ cres' = [cres EXCEPT ![p] = applyCodexPromptCache(id)]
    /\ cvia' = [cvia EXCEPT ![p] = via]
    /\ cpc' = [cpc EXCEPT ![p] = "done"]

\* Mutant of StoreError: the failure of the store ends the call.
StoreErrorEndsCall(p) ==
    /\ cenv.errors < MaxStoreErrors
    /\ cenv' = [cenv EXCEPT !.errors = @ + 1]
    /\ cpc' = [cpc EXCEPT ![p] = "done"]

\* A store operation fails (timeout, connection error): the call warns and
\* falls back to the local map.
StoreError(p) ==
    /\ cenv.errors < MaxStoreErrors
    /\ cenv' = [cenv EXCEPT !.errors = @ + 1]
    /\ cpc' = [cpc EXCEPT ![p] = "local_get"]

\* getOrCreateCodexPromptCacheID from its first line to the first store access.
BeginDerived(p, key) ==
    /\ ckey' = [ckey EXCEPT ![p] = key]
    /\ cattempt' = [cattempt EXCEPT ![p] = 0]
    /\ cpc' = [cpc EXCEPT ![p] = IF cdistributed THEN "redis_get" ELSE "local_get"]
    /\ cpasses' = [cpasses EXCEPT ![p] = IF cdistributed THEN 1 ELSE 0]

\* applyCodexPromptCache, to the point where it returns or starts to resolve a
\* derived key.  In a sequential run a call begins when the previous returned.
ApplyCodexPromptCache(p, from, payload, model, skipIfBodyEmpty) ==
    LET r == resolveCodexPromptCacheID(from, payload, model) IN
    /\ UNCHANGED outsideCache
    /\ csequential
    /\ cpc[p] = "idle"
    /\ \A q \in CacheCalls : q < p => cpc[q] = "done"
    /\ creq' = [creq EXCEPT ![p] =
          [from |-> from, payload |-> payload, model |-> model,
           skipIfBodyEmpty |-> skipIfBodyEmpty]]
    /\ cafter' = [cafter EXCEPT ![p] = CacheDone]
    /\ UNCHANGED <<credis, clocal, cdistributed, csequential, cdeletes, cstored, cenv>>
    /\ IF skipIfBodyEmpty /\ payload.raw_empty
       THEN /\ cres' = [cres EXCEPT ![p] = [NoCacheResult EXCEPT !.returned = TRUE]]
            /\ cpc' = [cpc EXCEPT ![p] = "done"]
            /\ UNCHANGED <<ckey, cattempt, cpasses, cvia>>
       ELSE IF r[1] = "id"
       THEN /\ IF r[2] = ""
               THEN cres' = [cres EXCEPT ![p] = [NoCacheResult EXCEPT !.returned = TRUE]]
               ELSE cres' = [cres EXCEPT ![p] = applyCodexPromptCache(r[2])]
            /\ cpc' = [cpc EXCEPT ![p] = "done"]
            /\ UNCHANGED <<ckey, cattempt, cpasses, cvia>>
       ELSE /\ BeginDerived(p, r[2])
            /\ UNCHANGED <<cres, cvia>>

\* getOrCreateCodexPromptCacheID called by concurrent proxy processes.
GetOrCreateCodexPromptCacheID(p, model, userID) ==
    /\ UNCHANGED outsideCache
    /\ ~csequential
    /\ cpc[p] = "idle"
    /\ \A q \in CacheCalls : q < p => cpc[q] # "idle"
    /\ creq' = [creq EXCEPT ![p] =
          [NoCacheRequest EXCEPT !.model = model,
                                 !.payload = [NoPayload EXCEPT !.user_id = userID],
                                 !.from = "claude"]]
    /\ cafter' = [cafter EXCEPT ![p] = CacheDone]
    /\ UNCHANGED <<credis, clocal, cdistributed, csequential, cdeletes, cstored, cenv>>
    /\ IF TrimValue(model) = "" \/ TrimValue(userID) = ""
       THEN /\ cres' = [cres EXCEPT ![p] = [NoCacheResult EXCEPT !.returned = TRUE]]
            /\ cpc' = [cpc EXCEPT ![p] = "done"]
            /\ UNCHANGED <<ckey, cattempt, cpasses, cvia>>
       ELSE /\ BeginDerived(p, DerivedKey(TrimValue(model), TrimValue(userID)))
            /\ UNCHANGED <<cres, cvia>>

\* Leaving a pass of the loop by `continue`: the next pass, or the end of the
\* loop (return "", false: the caller falls back to the local map).
ContinueLoop(p) ==
    IF cattempt[p] + 1 < 2
    THEN /\ cattempt' = [cattempt EXCEPT ![p] = @ + 1]
         /\ cpasses' = [cpasses EXCEPT ![p] = @ + 1]
         /\ cpc' = [cpc EXCEPT ![p] = "redis_get"]
    ELSE /\ cattempt' = [cattempt EXCEPT ![p] = @ + 1]
         /\ cpc' = [cpc EXCEPT ![p] = "local_get"]
         /\ UNCHANGED cpasses

\* Whether the first switch of the loop repairs (deletes) a blank value.
RepairsOnGet(attempt) == TRUE

\* Whether the switch after a lost set-if-absent repairs a blank value.
RepairsAfterSetNX(attempt) == attempt = 0

\* The loop's first read of the key.
RedisGet(p, err) ==
    LET got == codexPromptCacheRedisGetValue(ckey[p]) IN
    /\ UNCHANGED outsideCache
    /\ cpc[p] = "redis_get"
    /\ UNCHANGED <<credis, clocal, cdistributed, csequential, creq, ckey, cdeletes,
                   cafter, cstored>>
    /\ IF err
       THEN StoreError(p) /\ UNCHANGED <<cres, cvia, cattempt, cpasses>>
       ELSE /\ UNCHANGED cenv
            /\ CASE got[2] = "valid" ->
                      CacheReturn(p, got[1], "redis") /\ UNCHANGED <<cattempt, cpasses>>
                 [] got[2] = "invalid" /\ RepairsOnGet(cattempt[p]) ->
                      /\ cpc' = [cpc EXCEPT ![p] = "redis_del"]
                      /\ UNCHANGED <<cres, cvia, cattempt, cpasses>>
                 [] OTHER ->
                      /\ cpc' = [cpc EXCEPT ![p] = "redis_setnx"]
                      /\ UNCHANGED <<cres, cvia, cattempt, cpasses>>

\* codexPromptCacheRedisDeleteKey in either switch, then `continue`.
RedisDelete(p, err) ==
    /\ UNCHANGED outsideCache
    /\ cpc[p] = "redis_del"
    /\ UNCHANGED <<clocal, cdistributed, csequential, creq, ckey, cafter, cstored,
                   cres, cvia>>
    /\ IF err
       THEN StoreError(p) /\ UNCHANGED <<credis, cdeletes, cattempt, cpasses>>
       ELSE /\ credis' = [credis EXCEPT ![ckey[p]] = Missing]
            /\ cdeletes' = [cdeletes EXCEPT ![p] = @ + 1]
            /\ ContinueLoop(p)
            /\ UNCHANGED cenv

\* The set-if-absent of a fresh candidate.
RedisSetNX(p, err) ==
    LET candidate == NewUUID(p, cattempt[p], "r") IN
    /\ UNCHANGED outsideCache
    /\ cpc[p] = "redis_setnx"
    /\ UNCHANGED <<clocal, cdistributed, csequential, creq, ckey, cafter, cdeletes,
                   cattempt, cpasses>>
    /\ IF err
       THEN StoreError(p) /\ UNCHANGED <<credis, cstored, cres, cvia>>
       ELSE /\ UNCHANGED cenv
            /\ IF codexPromptCacheRedisSetNX(credis[ckey[p]])
               THEN /\ credis' = [credis EXCEPT ![ckey[p]] = candidate]
                    /\ cstored' = cstored \cup {candidate}
                    /\ CacheReturn(p, candidate, "redis")
               ELSE /\ cpc' = [cpc EXCEPT ![p] = "redis_winner"]
                    /\ UNCHANGED <<credis, cstored, cres, cvia>>

\* The read of the winner after a lost set-if-absent.
RedisGetWinner(p, err) ==
    LET got == codexPromptCacheRedisGetValue(ckey[p]) IN
    /\ UNCHANGED outsideCache
    /\ cpc[p] = "redis_winner"
    /\ UNCHANGED <<credis, clocal, cdistributed, csequential, creq, ckey, cdeletes,
                   cafter, cstored>>
    /\ IF err
       THEN StoreError(p) /\ UNCHANGED <<cres, cvia, cattempt, cpasses>>
       ELSE /\ UNCHANGED cenv
            /\ CASE got[2] = "valid" ->
                      CacheReturn(p, got[1], "redis") /\ UNCHANGED <<cattempt, cpasses>>
                 [] got[2] = "invalid" /\ RepairsAfterSetNX(cattempt[p]) ->
                      /\ cpc' = [cpc EXCEPT ![p] = "redis_del"]
                      /\ UNCHANGED <<cres, cvia, cattempt, cpasses>>
                 [] got[2] = "missing" /\ cattempt[p] = 0 ->
                      ContinueLoop(p) /\ UNCHANGED <<cres, cvia>>
                 [] OTHER ->
                      /\ cpc' = [cpc EXCEPT ![p] = "local_get"]
                      /\ UNCHANGED <<cres, cvia, cattempt, cpasses>>

\* getCodexCache: a live entry of the process's map is returned.
LocalGet(p) ==
    /\ UNCHANGED outsideCache
    /\ cpc[p] = "local_get"
    /\ UNCHANGED <<credis, clocal, cdistributed, csequential, creq, ckey, cdeletes,
                   cafter, cstored, cenv, cattempt, cpasses>>
    /\ IF clocal[ProcOf(p)][ckey[p]] # ""
       THEN CacheReturn(p, clocal[ProcOf(p)][ckey[p]], "local")
       ELSE /\ cpc' = [cpc EXCEPT ![p] = "local_set"]
            /\ UNCHANGED <<cres, cvia>>

\* setCodexCache of a new id.
LocalSet(p) ==
    LET id == NewUUID(p, 0, "l") IN
    /\ UNCHANGED outsideCache
    /\ cpc[p] = "local_set"
    /\ clocal' = [clocal EXCEPT ![ProcOf(p)][ckey[p]] = id]
    /\ CacheReturn(p, id, "local")
    /\ UNCHANGED <<credis, cdistributed, csequential, creq, ckey, cdeletes,
                   cafter, cstored, cenv, cattempt, cpasses>>

\* Another writer leaves a blank value under the key.
BlankWrite(k, v) ==
    /\ UNCHANGED outsideCache
    /\ cdistributed
    /\ cenv.blanks < MaxBlankWrites
    /\ credis[k] \notin BlankValues
    /\ \E p \in CacheCalls : cpc[p] \notin {"idle", "done"} /\ ckey[p] = k
    /\ credis' = [credis EXCEPT ![k] = v]
    /\ cenv' = [cenv EXCEPT !.blanks = @ + 1]
    /\ UNCHANGED <<clocal, cdistributed, csequential, cpc, creq, ckey, cattempt,
                   cres, cdeletes, cpasses, cvia, cafter, cstored>>

\* The key leaves the store: its TTL runs out, or another actor deletes it.
RedisExpire(k) ==
    /\ UNCHANGED outsideCache
    /\ cenv.expiries < MaxExpiries
    /\ credis[k] # Missing
    /\ credis' = [credis EXCEPT ![k] = Missing]
    /\ cenv' = [cenv EXCEPT !.expiries = @ + 1]
    /\ UNCHANGED <<clocal, cdistributed, csequential, cpc, creq, ckey, cattempt,
                   cres, cdeletes, cpasses, cvia, cafter, cstored>>

\* An entry of a process's map passes its Expire time.
LocalExpire(q, k) ==
    /\ UNCHANGED outsideCache
    /\ cenv.expiries < MaxExpiries
    /\ clocal[q][k] # ""
    /\ clocal' = [clocal EXCEPT ![q][k] = ""]
    /\ cenv' = [cenv EXCEPT !.expiries = @ + 1]
    /\ UNCHANGED <<credis, cdistributed, csequential, cpc, creq, ckey, cattempt,
                   cres, cdeletes, cpasses, cvia, cafter, cstored>>

(***************************************************************************)
(*                       HTTP STREAMING PRODUCER                           *)
(***************************************************************************)

\* Lines the upstream body yields at most, and chunks one translation yields
\* at most.
MaxLines == 2
MaxChunks == 2

\* The executors whose ExecuteStream starts this producer goroutine; the
\* Gemini CLI executor reads the whole body at once when opts.Alt is set; the
\* Codex WebSocket executor reads from a connection of its own or, within an
\* execution session, from the session's shared connection.
StreamKinds == {"base", "gemini_cli", "gemini_cli_alt", "codex_ws", "codex_ws_session"}

\* The producers that read an HTTP response body.
HTTPKinds == {"base", "gemini_cli", "gemini_cli_alt"}

\* What scanner.Scan / io.ReadAll can do next: a line, the end of the body, or
\* a read error (a canceled context makes the body's reads fail).
ScanOutcomes == {"line", "eof", "error"}

SParked ==
    /\ skind = "base"
    /\ sctx = "live"
    /\ sconsumer = "receiving"
    /\ spc = "scan"
    /\ sleft = 0
    /\ slines = 0
    /\ sscanErr = FALSE
    /\ sreceived = <<>>
    /\ sclosed = FALSE
    /\ sbodyClosed = FALSE
    /\ sfailure = FALSE

\* ExecuteStream has returned the StreamResult (headers and the unbuffered
\* channel `out`) and the goroutine is about to read the body.
SInit ==
    /\ skind \in StreamKinds
    /\ sctx = "live"
    /\ sconsumer = "receiving"
    /\ spc = IF skind = "gemini_cli_alt" THEN "read_all" ELSE "scan"
    /\ sleft = 0
    /\ slines = 0
    /\ sscanErr = FALSE
    /\ sreceived = <<>>
    /\ sclosed = FALSE
    /\ sbodyClosed = FALSE
    /\ sfailure = FALSE

\* reporter.publishFailure(ctx), called by the HTTP producers right before
\* they send the error chunk.
PublishedFailure(failure, pc) == failure \/ pc = "send_err"

\* Where the goroutine goes once the [DONE] chunks are out.
AfterDone(scanErr) == IF scanErr THEN "send_err" ELSE "exit"

\* One pass of `for scanner.Scan()`, up to its first send or the next Scan;
\* when Scan returns false, the translation of [DONE].
Scan(outcome, n) ==
    /\ UNCHANGED outsideStream
    /\ spc = "scan"
    /\ skind \in HTTPKinds
    /\ UNCHANGED <<skind, sctx, sconsumer, sreceived, sclosed, sbodyClosed>>
    /\ IF outcome = "line"
       THEN /\ slines < MaxLines
            /\ slines' = slines + 1
            /\ sleft' = n
            /\ spc' = IF n = 0 THEN "scan" ELSE "send_chunks"
            /\ UNCHANGED sscanErr
       ELSE /\ sscanErr' = (outcome = "error")
            /\ sleft' = IF n = 0 /\ outcome = "error" THEN 1 ELSE n
            /\ spc' = IF n = 0 THEN AfterDone(outcome = "error") ELSE "send_done"
            /\ UNCHANGED slines
    /\ sfailure' = PublishedFailure(sfailure, spc')

\* The Gemini CLI executor's io.ReadAll path (opts.Alt set): the read error, or
\* the translation of the whole body into n chunks.
ReadAll(outcome, n) ==
    /\ UNCHANGED outsideStream
    /\ spc = "read_all"
    /\ outcome \in {"eof", "error"}
    /\ UNCHANGED <<skind, sctx, sconsumer, sreceived, sclosed, sbodyClosed, slines>>
    /\ sscanErr' = (outcome = "error")
    /\ IF outcome = "error"
       THEN sleft' = 1 /\ spc' = "send_err"
       ELSE sleft' = n /\ spc' = IF n = 0 THEN "translate_done" ELSE "send_chunks"
    /\ sfailure' = PublishedFailure(sfailure, spc')

\* The io.ReadAll path's translation of [DONE] into n chunks.
TranslateDone(n) ==
    /\ UNCHANGED outsideStream
    /\ spc = "translate_done"
    /\ sleft' = n
    /\ spc' = IF n = 0 THEN AfterDone(sscanErr) ELSE "send_done"
    /\ UNCHANGED <<skind, sctx, sconsumer, slines, sscanErr, sreceived, sclosed,
                   sbodyClosed, sfailure>>

\* One pass of the Codex WebSocket executor's read loop, up to its first send:
\* the context check at the head of the loop (and, within a session, the
\* ctx.Done() case of the read), else a message that is translated into n
\* chunks, response.completed, or a read error or upstream error event.
ReadMessage(outcome, n) ==
    /\ UNCHANGED outsideStream
    /\ spc = "scan"
    /\ skind \notin HTTPKinds
    /\ UNCHANGED <<skind, sctx, sconsumer, sreceived, sclosed, sbodyClosed>>
    /\ IF outcome = "context_done"
       THEN /\ sctx = "canceled"
            /\ sscanErr' = TRUE
            /\ sleft' = 1
            /\ spc' = "send_err"
            /\ UNCHANGED slines
       ELSE /\ skind = "codex_ws_session" => sctx = "live"
            /\ CASE outcome = "line" ->
                       /\ slines < MaxLines
                       /\ slines' = slines + 1
                       /\ sleft' = n
                       /\ spc' = IF n = 0 THEN "scan" ELSE "send_chunks"
                       /\ UNCHANGED sscanErr
                 [] outcome = "eof" ->
                       /\ sleft' = n
                       /\ spc' = IF n = 0 THEN "exit" ELSE "send_last"
                       /\ UNCHANGED <<slines, sscanErr>>
                 [] outcome = "error" ->
                       /\ sscanErr' = TRUE
                       /\ sleft' = 1
                       /\ spc' = "send_err"
                       /\ UNCHANGED slines
    /\ sfailure' = (sfailure \/ outcome = "error")

\* Whether a send on `out` can complete: the channel is unbuffered, so it
\* needs the consumer at its receive.
SendCanComplete(consumer, ctx) == consumer = "receiving"

\* `out <- chunk` completing together with the consumer's receive.
Deliver ==
    /\ UNCHANGED outsideStream
    /\ spc \in {"send_chunks", "send_done", "send_last", "send_err"}
    /\ SendCanComplete(sconsumer, sctx)
    /\ sreceived' = Append(sreceived, CASE spc = "send_err" -> "err"
                                         [] spc = "send_done" -> "done"
                                         [] OTHER -> "payload")
    /\ sleft' = IF sleft = 1 /\ spc = "send_done" /\ sscanErr THEN 1 ELSE sleft - 1
    /\ spc' = IF sleft > 1 THEN spc
              ELSE CASE spc = "send_chunks" ->
                            IF skind = "gemini_cli_alt" THEN "translate_done" ELSE "scan"
                     [] spc = "send_done" -> AfterDone(sscanErr)
                     [] OTHER -> "exit"
    /\ sfailure' = (sfailure \/ (spc = "send_done" /\ spc' = "send_err"))
    /\ UNCHANGED <<skind, sctx, sconsumer, slines, sscanErr, sclosed, sbodyClosed>>

\* The Codex WebSocket executor's send: select on `out <- chunk` and
\* ctx.Done(); with the context canceled the send is given up and the
\* goroutine returns.
SendAbandoned ==
    /\ UNCHANGED outsideStream
    /\ spc \in {"send_chunks", "send_last", "send_err"}
    /\ skind \notin HTTPKinds
    /\ sctx = "canceled"
    /\ sleft' = 0
    /\ spc' = "exit"
    /\ UNCHANGED <<skind, sctx, sconsumer, slines, sscanErr, sreceived, sclosed,
                   sbodyClosed, sfailure>>

ClosesUpstreamNever(kind) == FALSE

\* Whether the goroutine's deferred function closes the upstream: the HTTP
\* response body, or the WebSocket connection of a request without a session;
\* within a session it clears the active channel and releases the lease.
ClosesUpstream(kind) == kind # "codex_ws_session"

\* The goroutine returns: the deferred function registered last runs first,
ProducerExit ==
    /\ UNCHANGED outsideStream
    /\ spc = "exit"
    /\ sbodyClosed' = ClosesUpstream(skind)
    /\ spc' = "close_out"
    /\ UNCHANGED <<skind, sctx, sconsumer, sleft, slines, sscanErr, sreceived,
                   sclosed, sfailure>>

\* then the deferred close(out).
CloseOut ==
    /\ UNCHANGED outsideStream
    /\ spc = "close_out"
    /\ sclosed' = TRUE
    /\ spc' = "closed"
    /\ UNCHANGED <<skind, sctx, sconsumer, sleft, slines, sscanErr, sreceived,
                   sbodyClosed, sfailure>>

\* The caller's context is canceled.
CancelContext ==
    /\ UNCHANGED outsideStream
    /\ sctx = "live"
    /\ ~sclosed
    /\ sctx' = "canceled"
    /\ UNCHANGED <<skind, sconsumer, spc, sleft, slines, sscanErr, sreceived,
                   sclosed, sbodyClosed, sfailure>>

\* The caller, its context canceled, gives up receiving from the channel.
ConsumerStops ==
    /\ UNCHANGED outsideStream
    /\ sctx = "canceled"
    /\ sconsumer = "receiving"
    /\ ~sclosed
    /\ sconsumer' = "stopped"
    /\ UNCHANGED <<skind, sctx, spc, sleft, slines, sscanErr, sreceived,
                   sclosed, sbodyClosed, sfailure>>

ProducerStep ==
    \/ \E o \in ScanOutcomes, n \in 0..MaxChunks : Scan(o, n)
    \/ \E o \in ScanOutcomes, n \in 0..MaxChunks : ReadAll(o, n)
    \/ \E n \in 0..MaxChunks : TranslateDone(n)
    \/ \E o \in ScanOutcomes \cup {"context_done"}, n \in 0..MaxChunks :
          ReadMessage(o, n)
    \/ Deliver
    \/ SendAbandoned
    \/ ProducerExit
    \/ CloseOut

(***************************************************************************)
(*                      CODEX WEBSOCKET EXECUTOR                           *)
(***************************************************************************)

\* Requests made to the executor.
NumRequests == 2
\* Events from outside the requests in one run: CloseExecutionSession calls,
\* connections the upstream drops (or lets run into the idle deadline), and
\* contexts canceled.
MaxEnvEvents == 1
\* Messages the upstream sends on one connection at most.
MaxMsgs == 1

Requests == 1..NumRequests

\* A request creates at most one session object and dials at most twice.
Sess == 1..NumRequests
Conns == 1..(2 * NumRequests)

\* execution_session_id of a request: "" when the options carry none.
SessionIDs == {"s1"}

RequestKinds == {"Execute", "ExecuteStream"}

\* codexWebsocketSession; activeCh names the request whose read channel it is,
\* reqMu the request that holds the mutex (0: nil, unlocked).
NoSession ==
    [sessionID |-> "", conn |-> 0, connCreateSent |-> FALSE, readerConn |-> 0,
     activeCh |-> 0, reqMu |-> 0]

\* An upstream connection: its state ("none" before it is dialed, "open",
\* "dropped" by the upstream, "closed" by this process), the session that owns
\* it, the types of the frames written to it and the requests that wrote
\* them, its readUpstreamLoop goroutine with the channel it picked up, and the
\* messages read from it.
NoConn ==
    [state |-> "none", sess |-> 0, frames |-> <<>>, writers |-> <<>>,
     reader |-> "none", readerCh |-> 0, msgs |-> 0]

\* The upstream answers the frames of a connection in order, each with at
\* most MaxMsgs messages: the request whose frame message number k answers.
AnsweredRequest(cn, k) == cn.writers[((k - 1) \div MaxMsgs) + 1]

\* No call of the HTTP executor.
NoHTTPCall == [called |-> FALSE, kind |-> "", previous_response_id |-> FALSE, sid |-> ""]

\* e.CodexExecutor.Execute(ctx, auth, req, opts) or ExecuteStream(...): the
\* operation, and what the request and the options passed on carry.
CodexExecutorCall(rq) ==
    [called |-> TRUE, kind |-> rq.kind,
     previous_response_id |-> rq.previous_response_id, sid |-> rq.sid]

\* A request: its inputs, its lease, its locals, its read channel.
NoWSRequest ==
    [pc |-> "idle", kind |-> "", sid |-> "", previous_response_id |-> FALSE,
     sess |-> 0, held |-> FALSE, conn |-> 0, body |-> "", sendFailed |-> FALSE,
     reconnects |-> 0, resends |-> 0, result |-> "", code |-> 0,
     errorEvent |-> "", upgradeRequired |-> FALSE, http |-> NoHTTPCall,
     ctx |-> "live", ch |-> <<>>, chClosed |-> FALSE]

WParked ==
    /\ wsessions = [id \in SessionIDs |-> 0]
    /\ wsess = [x \in Sess |-> NoSession]
    /\ wconns = [c \in Conns |-> NoConn]
    /\ wrq = [r \in Requests |-> NoWSRequest]
    /\ wenv = 0
    /\ wpanic = FALSE

\* Execute deletes previous_response_id from the body; ExecuteStream keeps
\* the payload's.
BodyHasPrevious(kind, prev) == kind = "ExecuteStream" /\ prev

\* buildCodexWebsocketRequestBody: the type of the frame.
buildCodexWebsocketRequestBody(hasPrevious, allowAppend) ==
    IF allowAppend /\ hasPrevious THEN "response.append" ELSE "response.create"

\* codexWebsocketBuildRequestBody: allowAppend is true without a session.
codexWebsocketBuildRequestBody(sess, hasPrevious) ==
    buildCodexWebsocketRequestBody(hasPrevious,
                                   IF sess = 0 THEN TRUE ELSE wsess[sess].connCreateSent)

\* The session object getOrCreateSession allocates, the connection a dial
\* returns: ones not used before.
NewSession == CHOOSE x \in Sess :
                 wsess[x].sessionID = "" /\ \A y \in Sess : y < x => wsess[y].sessionID # ""

NewConn == CHOOSE c \in Conns :
              wconns[c].state = "none"
              /\ \A d \in Conns : d < c => wconns[d].state # "none"

\* invalidateUpstreamConn(sess, conn) takes effect only on the session's
\* current connection: the session forgets it,
Invalidates(ws, sess, c) == sess # 0 /\ c # 0 /\ ws[sess].conn = c

Invalidated(ws, sess, c) ==
    IF Invalidates(ws, sess, c)
    THEN [ws EXCEPT ![sess].conn = 0, ![sess].connCreateSent = FALSE,
                    ![sess].readerConn = IF @ = c THEN 0 ELSE @]
    ELSE ws

\* and closes it.
InvalidatedConn(wc, ws, sess, c) ==
    IF Invalidates(ws, sess, c) THEN [wc EXCEPT ![c].state = "closed"] ELSE wc

\* sess.clearActive(ch).
ClearedActive(ws, sess, ch) ==
    IF sess # 0 /\ ws[sess].activeCh = ch THEN [ws EXCEPT ![sess].activeCh = 0] ELSE ws

ReleasedNever(ws, rq) == ws

\* lease.Release(): unlocks reqMu, once.
Released(ws, rq) ==
    IF rq.held THEN [ws EXCEPT ![rq.sess].reqMu = 0] ELSE ws

\* markCodexWebsocketCreateSent after frame `body` went out on connection c.
MarkedCreateSent(ws, sess, c, body) ==
    IF sess # 0 /\ body = "response.create" /\ ws[sess].conn = c
    THEN [ws EXCEPT ![sess].connCreateSent = TRUE]
    ELSE ws

\* The request returns to its caller (for ExecuteStream: its goroutine ends):
\* only what it reports is kept.
Returned(rq, result) ==
    [rq EXCEPT !.pc = "done", !.result = result, !.held = FALSE, !.kind = "",
               !.previous_response_id = FALSE, !.conn = 0, !.body = "",
               !.ctx = "live", !.ch = <<>>]

\* conn.WriteMessage succeeds on a live connection, fails on one closed by
\* this process, and may do either once the upstream has gone.
WriteOutcome(state, ok) ==
    IF ok THEN state \in {"open", "dropped"} ELSE state \in {"dropped", "closed"}

\* conn.ReadMessage returns a message only from a live connection, and an error
\* only once the connection is gone (dropped, idle deadline, closed).
ReadOutcome(state, isError) ==
    IF isError THEN state \in {"dropped", "closed"} ELSE state = "open"

ReqMuFreeAlways(sess) == TRUE

\* sess.reqMu is unlocked.
ReqMuFree(sess) == wsess[sess].reqMu = 0

AfterSendFailureNoRetry(sess) == "done"

\* After a failed write of the request frame a request without a session
\* returns the error; one with a session retries.
AfterSendFailure(sess) == IF sess = 0 THEN "done" ELSE "retry_connect"

\* ensureUpstreamConn dialed connection c for session sess.
Dialed(ws, sess, c) ==
    IF sess = 0 THEN ws
    ELSE [ws EXCEPT ![sess].conn = c, ![sess].connCreateSent = FALSE,
                    ![sess].readerConn = c]

\* The new connection; with a session its readUpstreamLoop starts.
DialedConn(wc, sess, c) ==
    [wc EXCEPT ![c] = [NoConn EXCEPT !.state = "open", !.sess = sess,
                                     !.reader = IF sess = 0 THEN "none" ELSE "running"]]

\* What a request does to its session when it returns after setActive:
\* (invalidateUpstreamConn where the path has it,) clearActive(readCh),
\* lease.Release().
FinishSess(ws, rq, r, inval) ==
    Released(ClearedActive(IF inval THEN Invalidated(ws, rq.sess, rq.conn) ELSE ws,
                           rq.sess, r), rq)

\* What it does to its connection: without a session the connection is closed.
FinishConns(wc, ws, rq, inval) ==
    IF rq.sess = 0
    THEN IF rq.conn # 0 THEN [wc EXCEPT ![rq.conn].state = "closed"] ELSE wc
    ELSE IF inval THEN InvalidatedConn(wc, ws, rq.sess, rq.conn) ELSE wc

\* The head of the read loop: ctx.Err() != nil returns, else the request
\* blocks in readCodexWebsocketMessage.
LoopTop(r, rq) ==
    IF rq.ctx = "canceled"
    THEN /\ wsess' = FinishSess(wsess, rq, r, FALSE)
         /\ wconns' = FinishConns(wconns, wsess, rq, FALSE)
         /\ wrq' = [wrq EXCEPT ![r] = Returned(rq, "context_done")]
    ELSE /\ wrq' = [wrq EXCEPT ![r] = [rq EXCEPT !.pc = "read"]]
         /\ UNCHANGED <<wsess, wconns>>

\* Execute / ExecuteStream up to acquireExecutionSession's getOrCreateSession.
\* Without an execution_session_id the lease has no session and the frame is
\* built at once.
StartRequest(r, kind, sid, prev) ==
    /\ ~wpanic
    /\ wrq[r].pc = "idle"
    /\ \A q \in Requests : q < r => wrq[q].pc # "idle"
    /\ IF sid = ""
       THEN /\ wrq' = [wrq EXCEPT ![r] =
                          [@ EXCEPT !.pc = "connect", !.kind = kind,
                                    !.previous_response_id = prev,
                                    !.body = codexWebsocketBuildRequestBody(
                                                 0, BodyHasPrevious(kind, prev))]]
            /\ UNCHANGED <<wsessions, wsess>>
       ELSE LET s == IF wsessions[sid] # 0 THEN wsessions[sid] ELSE NewSession
            IN /\ wsessions' = [wsessions EXCEPT ![sid] = s]
               /\ wsess' = [wsess EXCEPT ![s].sessionID = sid]
               /\ wrq' = [wrq EXCEPT ![r] =
                             [@ EXCEPT !.pc = "lock", !.kind = kind, !.sid = sid,
                                       !.previous_response_id = prev, !.sess = s]]
    /\ UNCHANGED <<wconns, wenv, wpanic, outsideWS>>

\* sess.reqMu.Lock() returns; the frame is built from connCreateSent.
LockSession(r) ==
    LET rq == wrq[r] IN
    /\ ~wpanic
    /\ rq.pc = "lock"
    /\ ReqMuFree(rq.sess)
    /\ wsess' = [wsess EXCEPT ![rq.sess].reqMu = r]
    /\ wrq' = [wrq EXCEPT ![r] =
                  [rq EXCEPT !.pc = "connect", !.held = TRUE,
                             !.body = codexWebsocketBuildRequestBody(
                                          rq.sess,
                                          BodyHasPrevious(rq.kind, rq.previous_response_id))]]
    /\ UNCHANGED <<wsessions, wconns, wenv, wpanic, outsideWS>>

\* connectCodexWebsocket: the session's connection is reused, or one is
\* dialed; the dial succeeds, fails, or is answered 426 Upgrade Required.
Connect(r, outcome) ==
    LET rq == wrq[r]
        s == rq.sess
        reuse == s # 0 /\ wsess[s].conn # 0
    IN
    /\ ~wpanic
    /\ rq.pc = "connect"
    /\ reuse => outcome = "ok"
    /\ IF outcome = "ok"
       THEN LET c == IF reuse THEN wsess[s].conn ELSE NewConn IN
            /\ wsess' = IF reuse THEN [wsess EXCEPT ![s].readerConn = c]
                        ELSE Dialed(wsess, s, c)
            /\ wconns' = IF reuse
                         THEN IF wsess[s].readerConn # c
                              THEN [wconns EXCEPT ![c].reader = "running"]
                              ELSE wconns
                         ELSE DialedConn(wconns, s, c)
            /\ wrq' = [wrq EXCEPT ![r] =
                          [rq EXCEPT !.conn = c,
                                     !.pc = IF s = 0 THEN "write" ELSE "setactive"]]
       ELSE /\ wsess' = Released(wsess, rq)
            /\ wrq' = [wrq EXCEPT ![r] =
                          IF outcome = "upgrade"
                          THEN [Returned(rq, "http_fallback")
                                   EXCEPT !.upgradeRequired = TRUE,
                                          !.http = CodexExecutorCall(rq)]
                          ELSE Returned(rq, "connect_error")]
            /\ UNCHANGED wconns
    /\ UNCHANGED <<wsessions, wenv, wpanic, outsideWS>>

\* readCh = make(chan ...); sess.setActive(readCh).
SetActive(r) ==
    LET rq == wrq[r] IN
    /\ ~wpanic
    /\ rq.pc = "setactive"
    /\ wsess' = [wsess EXCEPT ![rq.sess].activeCh = r]
    /\ wrq' = [wrq EXCEPT ![r] = [rq EXCEPT !.pc = "write"]]
    /\ UNCHANGED <<wsessions, wconns, wenv, wpanic, outsideWS>>

\* The frame went out on rq.conn: markCodexWebsocketCreateSent, then the head
\* of the read loop.
Sent(r, rq) ==
    LET ws == MarkedCreateSent(wsess, rq.sess, rq.conn, rq.body)
        wc == [wconns EXCEPT ![rq.conn].frames = Append(@, rq.body),
                             ![rq.conn].writers = Append(@, r)]
    IN IF rq.ctx = "canceled"
       THEN /\ wsess' = FinishSess(ws, rq, r, FALSE)
            /\ wconns' = FinishConns(wc, ws, rq, FALSE)
            /\ wrq' = [wrq EXCEPT ![r] = Returned(rq, "context_done")]
       ELSE /\ wsess' = ws
            /\ wconns' = wc
            /\ wrq' = [wrq EXCEPT ![r] = [rq EXCEPT !.pc = "read"]]

\* writeCodexWebsocketMessage(sess, conn, wsReqBody) and what follows it.
WriteRequest(r, ok) ==
    LET rq == wrq[r]
        failed == [rq EXCEPT !.sendFailed = TRUE]
    IN
    /\ ~wpanic
    /\ rq.pc = "write"
    /\ WriteOutcome(wconns[rq.conn].state, ok)
    /\ IF ok
       THEN Sent(r, rq)
       ELSE IF AfterSendFailure(rq.sess) = "done"
            THEN /\ wsess' = FinishSess(wsess, rq, r, FALSE)
                 /\ wconns' = FinishConns(wconns, wsess, rq, FALSE)
                 /\ wrq' = [wrq EXCEPT ![r] = Returned(failed, "send_error")]
            ELSE /\ wsess' = Invalidated(wsess, rq.sess, rq.conn)
                 /\ wconns' = InvalidatedConn(wconns, wsess, rq.sess, rq.conn)
                 /\ wrq' = [wrq EXCEPT ![r] = [failed EXCEPT !.pc = "retry_connect"]]
    /\ UNCHANGED <<wsessions, wenv, wpanic, outsideWS>>

\* retryCodexWebsocketSend: ensureUpstreamConn, then the frame is rebuilt.
RetryConnect(r, outcome) ==
    LET rq == [wrq[r] EXCEPT !.reconnects = @ + 1]
        s == rq.sess
        reuse == wsess[s].conn # 0
        ok == outcome = "ok"
    IN
    /\ ~wpanic
    /\ rq.pc = "retry_connect"
    /\ reuse => ok
    /\ IF ok
       THEN LET c == IF reuse THEN wsess[s].conn ELSE NewConn
                ws == IF reuse THEN wsess ELSE Dialed(wsess, s, c)
            IN /\ wsess' = ws
               /\ wconns' = IF reuse THEN wconns ELSE DialedConn(wconns, s, c)
               /\ wrq' = [wrq EXCEPT ![r] =
                             [rq EXCEPT !.pc = "retry_write", !.conn = c,
                                        !.body = buildCodexWebsocketRequestBody(
                                                     BodyHasPrevious(rq.kind, rq.previous_response_id),
                                                     ws[s].connCreateSent)]]
       ELSE /\ wsess' = FinishSess(wsess, rq, r, FALSE)
            /\ wrq' = [wrq EXCEPT ![r] =
                          [Returned(rq, "reconnect_error")
                              EXCEPT !.upgradeRequired = (outcome = "upgrade")]]
            /\ UNCHANGED wconns
    /\ UNCHANGED <<wsessions, wenv, wpanic, outsideWS>>

\* retryCodexWebsocketSend: the resend.
RetryWrite(r, ok) ==
    LET rq == [wrq[r] EXCEPT !.resends = @ + 1] IN
    /\ ~wpanic
    /\ rq.pc = "retry_write"
    /\ WriteOutcome(wconns[rq.conn].state, ok)
    /\ IF ok
       THEN Sent(r, rq)
       ELSE /\ wsess' = FinishSess(wsess, rq, r, TRUE)
            /\ wconns' = FinishConns(wconns, wsess, rq, TRUE)
            /\ wrq' = [wrq EXCEPT ![r] = Returned(rq, "resend_error")]
    /\ UNCHANGED <<wsessions, wenv, wpanic, outsideWS>>

\* The upstream messages: their type, status and status_code ("err" is a
\* failed read, not a message).
UpstreamMessages == {"event", "completed", "error_status", "error_status_code",
                     "error_unstated"}

EventOf(msg) ==
    CASE msg = "event" -> [type |-> "response.output_text.delta", status |-> 0, status_code |-> 0]
      [] msg = "completed" -> [type |-> "response.completed", status |-> 0, status_code |-> 0]
      [] msg = "error_status" -> [type |-> "error", status |-> 429, status_code |-> 0]
      [] msg = "error_status_code" -> [type |-> "error", status |-> 0, status_code |-> 503]
      [] msg = "error_unstated" -> [type |-> "error", status |-> 0, status_code |-> 0]
      [] OTHER -> [type |-> "", status |-> 0, status_code |-> 0]

\* parseCodexWebsocketError: whether the payload is taken for an upstream
\* error, and the status of the error made from it.
parseCodexWebsocketError(ev) ==
    LET status == IF ev.status = 0 THEN ev.status_code ELSE ev.status
    IN IF ev.type # "error" \/ status <= 0
       THEN [ok |-> FALSE, code |-> 0]
       ELSE [ok |-> TRUE, code |-> status]

\* What the read loop does with what readCodexWebsocketMessage returned: a
\* read error, an upstream error, response.completed, or another event.
Handle(r, rq0, msg) ==
    LET ev == EventOf(msg)
        wsErr == parseCodexWebsocketError(ev)
        rq == IF ev.type = "error" THEN [rq0 EXCEPT !.errorEvent = msg] ELSE rq0
    IN
    CASE msg = "err" ->
            /\ wsess' = FinishSess(wsess, rq, r, FALSE)
            /\ wconns' = FinishConns(wconns, wsess, rq, FALSE)
            /\ wrq' = [wrq EXCEPT ![r] =
                          Returned(rq, IF rq.sess # 0 /\ rq.kind = "ExecuteStream"
                                          /\ rq.ctx = "canceled"
                                       THEN "context_done" ELSE "read_error")]
      [] msg # "err" /\ wsErr.ok ->
            /\ wsess' = FinishSess(wsess, rq, r, TRUE)
            /\ wconns' = FinishConns(wconns, wsess, rq, TRUE)
            /\ wrq' = [wrq EXCEPT ![r] =
                          [Returned(rq, "upstream_error") EXCEPT !.code = wsErr.code]]
      [] msg # "err" /\ ~wsErr.ok /\ ev.type = "response.completed" ->
            /\ wsess' = FinishSess(wsess, rq, r, FALSE)
            /\ wconns' = FinishConns(wconns, wsess, rq, FALSE)
            /\ wrq' = [wrq EXCEPT ![r] = Returned(rq, "completed")]
      [] OTHER -> LoopTop(r, rq)

\* readCodexWebsocketMessage without a session: conn.ReadMessage(), and what
\* the read loop does with the result.
ReadDirect(r, msg) ==
    LET rq == wrq[r]
        c == rq.conn
    IN
    /\ ~wpanic
    /\ rq.pc = "read"
    /\ rq.sess = 0
    /\ ReadOutcome(wconns[c].state, msg = "err")
    /\ msg # "err" => wconns[c].msgs < MaxMsgs * Len(wconns[c].frames)
    /\ LET counted == IF msg = "err" THEN wconns
                      ELSE [wconns EXCEPT ![c].msgs = @ + 1]
           ev == EventOf(msg)
           wsErr == parseCodexWebsocketError(ev)
       IN CASE msg = "err" ->
                  /\ wconns' = FinishConns(counted, wsess, rq, FALSE)
                  /\ wrq' = [wrq EXCEPT ![r] = Returned(rq, "read_error")]
            [] msg # "err" /\ wsErr.ok ->
                  /\ wconns' = FinishConns(counted, wsess, rq, FALSE)
                  /\ wrq' = [wrq EXCEPT ![r] =
                                [Returned(rq, "upstream_error") EXCEPT !.code = wsErr.code]]
            [] msg # "err" /\ ~wsErr.ok /\ ev.type = "response.completed" ->
                  /\ wconns' = FinishConns(counted, wsess, rq, FALSE)
                  /\ wrq' = [wrq EXCEPT ![r] = Returned(rq, "completed")]
            [] OTHER ->
                  IF rq.ctx = "canceled"
                  THEN /\ wconns' = FinishConns(counted, wsess, rq, FALSE)
                       /\ wrq' = [wrq EXCEPT ![r] = Returned(rq, "context_done")]
                  ELSE /\ wconns' = counted
                       /\ UNCHANGED wrq
    /\ UNCHANGED <<wsessions, wsess, wenv, wpanic, outsideWS>>

\* readCodexWebsocketMessage with a session, the readCh case: an event of
\* another connection is skipped, a closed channel is an error.
ReadChannel(r) ==
    LET rq == wrq[r] IN
    /\ ~wpanic
    /\ rq.pc = "read"
    /\ rq.sess # 0
    /\ IF rq.ch # <<>>
       THEN LET ev == Head(rq.ch)
                rest == [rq EXCEPT !.ch = Tail(@)]
            IN IF ev[1] # rq.conn
               THEN /\ wrq' = [wrq EXCEPT ![r] = rest]
                    /\ UNCHANGED <<wsess, wconns>>
               ELSE Handle(r, rest, ev[2])
       ELSE /\ rq.chClosed
            /\ Handle(r, rq, "err")
    /\ UNCHANGED <<wsessions, wenv, wpanic, outsideWS>>

\* readCodexWebsocketMessage with a session, the ctx.Done() case.
ContextDone(r) ==
    LET rq == wrq[r] IN
    /\ ~wpanic
    /\ rq.pc = "read"
    /\ rq.sess # 0
    /\ rq.ctx = "canceled"
    /\ wsess' = FinishSess(wsess, rq, r, FALSE)
    /\ wrq' = [wrq EXCEPT ![r] = Returned(rq, "context_done")]
    /\ UNCHANGED <<wsessions, wconns, wenv, wpanic, outsideWS>>

\* The caller cancels the context of a request in flight.
CancelRequest(r) ==
    /\ ~wpanic
    /\ wenv < MaxEnvEvents
    /\ wrq[r].pc \notin {"idle", "done"}
    /\ wrq[r].ctx = "live"
    /\ wrq' = [wrq EXCEPT ![r].ctx = "canceled"]
    /\ wenv' = wenv + 1
    /\ UNCHANGED <<wsessions, wsess, wconns, wpanic, outsideWS>>

\* readUpstreamLoop: conn.ReadMessage() returns.  A text message goes to the
\* active channel (dropped when there is none); after an error the loop picks
\* up the active channel.
ReaderRead(c, msg) ==
    LET cn == wconns[c]
        ch == wsess[cn.sess].activeCh
    IN
    /\ ~wpanic
    /\ cn.reader = "running"
    /\ ReadOutcome(cn.state, msg = "err")
    /\ IF msg = "err"
       THEN /\ wconns' = [wconns EXCEPT ![c].reader = IF ch = 0 THEN "invalidate"
                                                       ELSE "notify",
                                       ![c].readerCh = ch]
            /\ UNCHANGED <<wrq, wpanic>>
       ELSE /\ cn.msgs < MaxMsgs * Len(cn.frames)
            /\ wconns' = [wconns EXCEPT ![c].msgs = @ + 1]
            /\ IF ch = 0
               THEN UNCHANGED <<wrq, wpanic>>
               ELSE /\ wrq' = [wrq EXCEPT ![ch].ch =
                                  Append(@, <<c, msg, AnsweredRequest(cn, cn.msgs + 1)>>)]
                    /\ wpanic' = wrq[ch].chClosed
    /\ UNCHANGED <<wsessions, wsess, wenv, outsideWS>>

\* readUpstreamLoop after a read error: the non-blocking send of the error
\* (sent, unless the channel's done has been signalled and is chosen),
\* sess.clearActive(ch), close(ch).  Sending on or closing a closed channel
\* panics.
ReaderNotify(c, sent) ==
    LET cn == wconns[c]
        ch == cn.readerCh
    IN
    /\ ~wpanic
    /\ cn.reader = "notify"
    /\ ~sent => wsess[cn.sess].activeCh # ch
    /\ wpanic' = wrq[ch].chClosed
    /\ wrq' = [wrq EXCEPT ![ch].chClosed = TRUE,
                          ![ch].ch = IF sent /\ wrq[ch].pc # "done"
                                     THEN Append(@, <<c, "err", 0>>) ELSE @]
    /\ wsess' = ClearedActive(wsess, cn.sess, ch)
    /\ wconns' = [wconns EXCEPT ![c].reader = "invalidate", ![c].readerCh = 0]
    /\ UNCHANGED <<wsessions, wenv, outsideWS>>

\* readUpstreamLoop's invalidateUpstreamConn(sess, conn), then it returns.
ReaderInvalidate(c) ==
    LET cn == wconns[c] IN
    /\ ~wpanic
    /\ cn.reader = "invalidate"
    /\ wsess' = Invalidated(wsess, cn.sess, c)
    /\ wconns' = [InvalidatedConn(wconns, wsess, cn.sess, c) EXCEPT ![c].reader = "exited"]
    /\ UNCHANGED <<wsessions, wrq, wenv, wpanic, outsideWS>>

\* The upstream closes a connection, or lets it run into the idle deadline.
UpstreamDrop(c) ==
    /\ ~wpanic
    /\ wenv < MaxEnvEvents
    /\ wconns[c].state = "open"
    /\ wconns' = [wconns EXCEPT ![c].state = "dropped"]
    /\ wenv' = wenv + 1
    /\ UNCHANGED <<wsessions, wsess, wrq, wpanic, outsideWS>>

\* readUpstreamLoop's read deadline (codexResponsesWebsocketIdleTimeout) runs
\* out while a request waits for an event of a connection on which the
\* upstream has nothing left to send: the pending ReadMessage will return an
\* error.
IdleDeadline(c) ==
    /\ ~wpanic
    /\ wconns[c].state = "open"
    /\ wconns[c].reader = "running"
    /\ wconns[c].msgs = MaxMsgs * Len(wconns[c].frames)
    /\ \E r \in Requests : /\ wrq[r].pc = "read"
                           /\ wrq[r].conn = c
                           /\ wrq[r].ch = <<>>
                           /\ ~wrq[r].chClosed
    /\ wconns' = [wconns EXCEPT ![c].state = "dropped"]
    /\ UNCHANGED <<wsessions, wsess, wrq, wenv, wpanic, outsideWS>>

\* CloseExecutionSession(sessionID): the session leaves the map and
\* closeExecutionSession closes its connection.
CloseExecutionSession(sid) ==
    LET s == wsessions[sid] IN
    /\ ~wpanic
    /\ wenv < MaxEnvEvents
    /\ wsessions' = [wsessions EXCEPT ![sid] = 0]
    /\ IF s # 0 /\ wsess[s].conn # 0
       THEN /\ wsess' = [wsess EXCEPT ![s].conn = 0, ![s].connCreateSent = FALSE,
                                      ![s].readerConn = IF @ = wsess[s].conn THEN 0 ELSE @]
            /\ wconns' = [wconns EXCEPT ![wsess[s].conn].state = "closed"]
       ELSE UNCHANGED <<wsess, wconns>>
    /\ wenv' = wenv + 1
    /\ UNCHANGED <<wrq, wpanic, outsideWS>>

(***************************************************************************)
(*                        GEMINI CLI EXECUTOR                              *)
(***************************************************************************)

\* Times the OAuth2 token can expire during one call.
MaxTokenExpiries == 1

\* Access tokens: the one the credential starts with and the ones the OAuth2
\* endpoint issues on refresh, in order.
AccessTokens == <<"t0", "t1", "t2">>

\* The token a refresh that follows token t returns.
Refreshed(t) ==
    LET i == CHOOSE k \in 1..Len(AccessTokens) : AccessTokens[k] = t
    IN AccessTokens[IF i < Len(AccessTokens) THEN i + 1 ELSE i]

\* auth.Metadata is nil.
NilMetadata == [nil |-> TRUE, access_token |-> "", token |-> Missing, project_id |-> ""]

\* auth.Metadata, as far as the executor reads and writes it: access_token and
\* the nested token map (here: the access token it carries; Missing when the
\* key is absent), and project_id.
CredentialMetadata ==
    {[nil |-> FALSE, access_token |-> "t0", token |-> tk, project_id |-> "p1"] :
        tk \in {Missing, "t0"}}

\* auth.Runtime: no shared credential, a shared credential that is this
\* credential's own, or a virtual credential of a shared parent.
RuntimeKinds == {"none", "shared", "virtual"}

GeminiBaseModels == {"gemini-2.5-pro", "gemini-3-pro-preview"}

\* cliPreviewFallbackOrder: every list is empty.
cliPreviewFallbackOrder(model) == <<>>

\* GeminiCLIProvider.GetFallbackModels: the base model first.
GetFallbackModels(baseModel) ==
    LET models == cliPreviewFallbackOrder(baseModel)
    IN IF Len(models) = 0 \/ models[1] # baseModel
       THEN <<baseModel>> \o models ELSE models

\* Outcomes of httpClient.Do: a status, or a transport error.
UpstreamStatuses == {"200", "429", "500", "errDo"}

\* Lines of a streamed 2xx body that carry usage, at most.
MaxUsageLines == 2

\* The request: the operation, req.Model, and whether opts.Alt is set.
NoGCLIRequest == [kind |-> "", model |-> "", alt |-> FALSE]

\* usageReporter.publish: the first call publishes, later calls do nothing.
publish(published) == 1

\* The calls of reporter.publish a 2xx response leads to: one in Execute and
\* in the io.ReadAll path of ExecuteStream, one per line that carries usage
\* in the scanner path.
PublishCalls(req, usageLines) ==
    IF req.kind = "Execute" \/ req.alt THEN 1 ELSE usageLines

Published(published, calls) == IF calls = 0 THEN published ELSE publish(published)

GParked ==
    /\ gauth = [Runtime |-> "none", Metadata |-> NilMetadata]
    /\ gpassed = NilMetadata
    /\ gshared = NilMetadata
    /\ gpc = "idle"
    /\ greq = NoGCLIRequest
    /\ gtok = ""
    /\ gexpired = FALSE
    /\ gidx = 0
    /\ gtried = <<>>
    /\ gres = ""
    /\ genv = 0
    /\ gpublished = 0

\* geminiOAuthMetadata: the shared credential's snapshot when there is one.
geminiOAuthMetadata(auth, shared) ==
    IF auth.Runtime # "none" /\ shared # NilMetadata THEN shared ELSE auth.Metadata

\* buildGeminiTokenFields over buildGeminiTokenMap: the fields written for
\* token tok.
buildGeminiTokenFields(tok) == [access_token |-> tok, token |-> tok]

\* for k, v := range fields { auth.Metadata[k] = v }, on a map made first
\* when it is nil.
WithFields(meta, fields) ==
    IF meta = NilMetadata
    THEN [nil |-> FALSE, access_token |-> fields.access_token,
          token |-> fields.token, project_id |-> ""]
    ELSE [meta EXCEPT !.access_token = fields.access_token,
                      !.token = fields.token]

\* SharedCredential.MergeMetadata: the fields are written into the shared
\* metadata, whose snapshot is returned.
MergeMetadata(shared, fields) == WithFields(shared, fields)

\* updateGeminiCLITokenMetadata: what auth.Metadata is afterwards,
AuthMetadataUpdated(auth, shared, tok) ==
    LET fields == buildGeminiTokenFields(tok) IN
    IF auth.Runtime # "none"
    THEN IF auth.Runtime # "virtual" THEN MergeMetadata(shared, fields)
         ELSE auth.Metadata
    ELSE WithFields(auth.Metadata, fields)

\* and what the shared credential's metadata is.
SharedMetadataUpdated(auth, shared, tok) ==
    IF auth.Runtime # "none" THEN MergeMetadata(shared, buildGeminiTokenFields(tok))
    ELSE shared

\* tokenSource.Token() (oauth2.ReuseTokenSource): the cached token while it is
\* valid, else a refreshed one, or an error when the refresh fails.
TokenAfter(tok, expired, ok) ==
    IF ~expired THEN tok ELSE IF ok THEN Refreshed(tok) ELSE "<error>"

\* Execute / ExecuteStream is called with a credential.
GStart(kind, alt, model, runtime, meta) ==
    /\ gpc = "idle"
    /\ runtime # "none" => meta # NilMetadata
    /\ gauth' = [Runtime |-> runtime, Metadata |-> meta]
    /\ gpassed' = meta
    /\ gshared' = IF runtime = "none" THEN NilMetadata ELSE meta
    /\ kind = "Execute" => ~alt
    /\ greq' = [kind |-> kind, model |-> model, alt |-> alt]
    /\ gpc' = "prepare"
    /\ UNCHANGED <<gtok, gexpired, gidx, gtried, gres, genv, gpublished, outsideGCLI>>

\* PrepareTokenSource: the token of the metadata, src.Token(), and
\* updateGeminiCLITokenMetadata with the current token.
PrepareTokenSource(expired, ok) ==
    LET metadata == geminiOAuthMetadata(gauth, gshared) IN
    /\ gpc = "prepare"
    /\ IF metadata = NilMetadata
       THEN /\ gpc' = "done"
            /\ gres' = "error: metadata missing"
            /\ UNCHANGED <<gauth, gshared, gtok, gidx>>
       ELSE LET token == IF metadata.token # Missing THEN metadata.token
                         ELSE metadata.access_token
                current == TokenAfter(token, expired, ok)
            IN IF current = "<error>"
               THEN /\ gpc' = "done"
                    /\ gres' = "error: token"
                    /\ UNCHANGED <<gauth, gshared, gtok, gidx>>
               ELSE /\ gauth' = [gauth EXCEPT !.Metadata =
                                    AuthMetadataUpdated(gauth, gshared, current)]
                    /\ gshared' = SharedMetadataUpdated(gauth, gshared, current)
                    /\ gtok' = current
                    /\ gidx' = 1
                    /\ gpc' = "attempt"
                    /\ UNCHANGED gres
    /\ UNCHANGED <<gpassed, greq, gexpired, gtried, genv, gpublished, outsideGCLI>>

\* The token expires while the call runs.
TokenExpires ==
    /\ gpc = "attempt"
    /\ ~gexpired
    /\ genv < MaxTokenExpiries
    /\ gexpired' = TRUE
    /\ genv' = genv + 1
    /\ UNCHANGED <<gauth, gpassed, gshared, gpc, greq, gtok, gidx, gtried, gres,
                   gpublished, outsideGCLI>>

\* One pass of the loop over the fallback models: tokenSource.Token(),
\* UpdateTokenMetadata, the upstream request, and what its status leads to.
Attempt(ok, status, usageLines) ==
    LET models == GetFallbackModels(greq.model)
        tok == TokenAfter(gtok, gexpired, ok)
    IN
    /\ gpc = "attempt"
    /\ gidx <= Len(models)
    /\ IF tok = "<error>"
       THEN /\ gpc' = "done"
            /\ gres' = "error: token"
            /\ UNCHANGED <<gauth, gshared, gtok, gexpired, gidx, gtried, gpublished>>
       ELSE /\ gauth' = [gauth EXCEPT !.Metadata =
                            AuthMetadataUpdated(gauth, gshared, tok)]
            /\ gshared' = SharedMetadataUpdated(gauth, gshared, tok)
            /\ gtok' = tok
            /\ gexpired' = FALSE
            /\ gtried' = Append(gtried, [model |-> models[gidx], status |-> status])
            /\ CASE status = "200" ->
                       /\ gpc' = "done"
                       /\ gres' = "ok: " \o models[gidx]
                       /\ gpublished' = Published(gpublished,
                                                  PublishCalls(greq, usageLines))
                       /\ UNCHANGED gidx
                 [] status = "429" ->
                       /\ gidx' = gidx + 1
                       /\ IF gidx + 1 <= Len(models)
                          THEN UNCHANGED <<gpc, gres>>
                          ELSE gpc' = "done" /\ gres' = "error: 429"
                       /\ UNCHANGED gpublished
                 [] OTHER ->
                       /\ gpc' = "done"
                       /\ gres' = "error: " \o status
                       /\ UNCHANGED <<gidx, gpublished>>
    /\ UNCHANGED <<gpassed, greq, genv, outsideGCLI>>

\* GeminiCLIExecutorRefactored.Refresh: returns the credential as it is.
GRefresh(runtime, meta) ==
    /\ gpc = "idle"
    /\ runtime # "none" => meta # NilMetadata
    /\ gauth' = [Runtime |-> runtime, Metadata |-> meta]
    /\ gpassed' = meta
    /\ gshared' = IF runtime = "none" THEN NilMetadata ELSE meta
    /\ greq' = [kind |-> "Refresh", model |-> "", alt |-> FALSE]
    /\ gpc' = "done"
    /\ gres' = "refreshed"
    /\ UNCHANGED <<gtok, gexpired, gidx, gtried, genv, gpublished, outsideGCLI>>

(***************************************************************************)
(*               WRITERS OF A CODEX WEBSOCKET CONNECTION                   *)
(***************************************************************************)

\* Pings the upstream sends on one connection at most.
MaxPings == 3

\* The goroutines that write: the request's (the request frame and, after a
\* failed write within a session, its resend on the second connection), and
\* the readUpstreamLoop of each connection of the session, whose ReadMessage
\* runs the ping handler.  Without a session the request's own goroutine
\* reads, and the connection keeps the library's default ping handler.
Writers == {"request", "reader1", "reader2"}

WriterConns == {1, 2}

\* The connection a reader goroutine reads.
ConnOf(w) == IF w = "reader1" THEN 1 ELSE 2

PWParked ==
    /\ pwSession = FALSE
    /\ pwMu = ""
    /\ pwpc = [w \in Writers |-> "idle"]
    /\ pwconn = [w \in Writers |-> 0]
    /\ pwpings = [c \in WriterConns |-> 0]
    /\ pwphase = "frame"
    /\ pwseen = 0

PWInit ==
    /\ pwSession \in BOOLEAN
    /\ pwMu = ""
    /\ pwpc = [w \in Writers |-> "idle"]
    /\ pwconn = [w \in Writers |-> 0]
    /\ pwpings = [c \in WriterConns |-> 0]
    /\ pwphase = "frame"
    /\ pwseen = 0

WriteMuFreeAlways(session) == TRUE

\* s.writeMu.Lock() can return; without a session no mutex is taken.
WriteMuFree(session) == session => pwMu = ""

\* writeCodexWebsocketMessage: with a session, sess.writeMessage locks writeMu
\* and is in conn.WriteMessage; without one, conn.WriteMessage at once.
BeginFrame ==
    /\ pwphase \in {"frame", "resend"}
    /\ pwpc["request"] = "idle"
    /\ WriteMuFree(pwSession)
    /\ pwMu' = IF pwSession THEN "request" ELSE pwMu
    /\ pwpc' = [pwpc EXCEPT !["request"] = "frame"]
    /\ pwconn' = [pwconn EXCEPT !["request"] = IF pwphase = "frame" THEN 1 ELSE 2]
    /\ UNCHANGED <<pwSession, pwpings, pwphase, pwseen, outsideWrite>>

\* conn.WriteMessage returns and the deferred writeMu.Unlock runs; a failed
\* first write within a session is followed by the resend on a new connection.
EndFrame(ok) ==
    /\ pwpc["request"] = "frame"
    /\ pwMu' = IF pwSession THEN "" ELSE pwMu
    /\ pwpc' = [pwpc EXCEPT !["request"] = "idle"]
    /\ pwconn' = [pwconn EXCEPT !["request"] = 0]
    /\ pwphase' = IF pwphase = "frame" /\ ~ok /\ pwSession THEN "resend"
                  ELSE IF ok THEN "read" ELSE "returned"
    /\ UNCHANGED <<pwSession, pwpings, pwseen, outsideWrite>>

\* The upstream sends a ping on a connection that is being read.
PingArrives(c) ==
    /\ pwseen < MaxPings
    /\ IF pwSession THEN c = 1 \/ pwphase \in {"resend", "read"}
       ELSE c = 1 /\ pwphase = "read"
    /\ pwpings' = [pwpings EXCEPT ![c] = @ + 1]
    /\ pwseen' = pwseen + 1
    /\ UNCHANGED <<pwSession, pwMu, pwpc, pwconn, pwphase, outsideWrite>>

\* The goroutine that reads connection ConnOf(w): the session's reader, or
\* the request itself when it has no session.
ReadsConn(w, c) ==
    IF pwSession THEN w # "request" /\ ConnOf(w) = c
    ELSE w = "request" /\ c = 1 /\ pwphase = "read"

\* The ping handler set by configureConn locks writeMu and is in
\* conn.WriteControl; the default handler writes the pong at once.
BeginPong(w, c) ==
    /\ ReadsConn(w, c)
    /\ pwpings[c] > 0
    /\ pwpc[w] = "idle"
    /\ WriteMuFree(pwSession)
    /\ pwMu' = IF pwSession THEN w ELSE pwMu
    /\ pwpc' = [pwpc EXCEPT ![w] = "pong"]
    /\ pwconn' = [pwconn EXCEPT ![w] = c]
    /\ pwpings' = [pwpings EXCEPT ![c] = @ - 1]
    /\ UNCHANGED <<pwSession, pwphase, pwseen, outsideWrite>>

\* conn.WriteControl returns and the deferred writeMu.Unlock runs.
EndPong(w) ==
    /\ pwpc[w] = "pong"
    /\ pwMu' = IF pwSession THEN "" ELSE pwMu
    /\ pwpc' = [pwpc EXCEPT ![w] = "idle"]
    /\ pwconn' = [pwconn EXCEPT ![w] = 0]
    /\ UNCHANGED <<pwSession, pwpings, pwphase, pwseen, outsideWrite>>

(***************************************************************************)
(*              CODEX HTTP EXECUTOR, NON-STREAMING CALL                    *)
(***************************************************************************)

\* Lines of the upstream body at most.
MaxBodyLines == 3

\* The lines of an SSE body: a line that is no data line (blank, "event: ..."),
\* and the data lines of response.created and of response.completed, the
\* latter with or without response.usage.
LineKinds == {"other", "created", "completed_usage", "completed_bare"}

LineOf(kind) ==
    CASE kind = "created" -> [data |-> TRUE, type |-> "response.created", usage |-> FALSE]
      [] kind = "completed_usage" -> [data |-> TRUE, type |-> "response.completed", usage |-> TRUE]
      [] kind = "completed_bare" -> [data |-> TRUE, type |-> "response.completed", usage |-> FALSE]
      [] OTHER -> [data |-> FALSE, type |-> "", usage |-> FALSE]

Bodies == UNION {[1..n -> LineKinds] : n \in 0..MaxBodyLines}

\* parseCodexUsage: whether the event carries usage to publish.
parseCodexUsage(ev) == ev.usage

\* cliproxyexecutor.Response: the line its payload was translated from (0: the
\* zero Response).
NoResponse == [from |-> 0]
\* The error returned: none, a statusErr with its code, or another error
\* (code 0).
NoError == [set |-> FALSE, code |-> 0]
FailedWithoutStatus(code) == [set |-> TRUE, code |-> 0]

Failed(code) == [set |-> TRUE, code |-> code]

XParked ==
    /\ xbody = <<>>
    /\ xpc = "do"
    /\ xdata = <<>>
    /\ xline = 0
    /\ xresp = NoResponse
    /\ xerr = NoError
    /\ xpublished = 0

\* The request is built and about to be sent.
XInit ==
    /\ xbody \in Bodies
    /\ xpc = "do"
    /\ xdata = <<>>
    /\ xline = 0
    /\ xresp = NoResponse
    /\ xerr = NoError
    /\ xpublished = 0

\* httpClient.Do and the status check.
ViaDo(outcome) ==
    /\ UNCHANGED outsideVia
    /\ xpc = "do"
    /\ CASE outcome = "errDo" -> xpc' = "done" /\ xerr' = Failed(0)
         [] outcome = "500" -> xpc' = "done" /\ xerr' = Failed(500)
         [] OTHER -> xpc' = "read" /\ UNCHANGED xerr
    /\ UNCHANGED <<xbody, xdata, xline, xresp, xpublished>>

\* io.ReadAll(httpResp.Body) and bytes.Split.
ViaReadAll(ok) ==
    /\ UNCHANGED outsideVia
    /\ xpc = "read"
    /\ IF ok
       THEN xpc' = "lines" /\ xdata' = xbody /\ xline' = 1 /\ UNCHANGED xerr
       ELSE xpc' = "done" /\ xerr' = Failed(0) /\ UNCHANGED <<xdata, xline>>
    /\ UNCHANGED <<xbody, xresp, xpublished>>

\* One pass of `for _, line := range lines`.
ViaLine ==
    LET ev == LineOf(xdata[xline]) IN
    /\ UNCHANGED outsideVia
    /\ xpc = "lines"
    /\ xline <= Len(xdata)
    /\ IF ~ev.data \/ ev.type # "response.completed"
       THEN /\ xline' = xline + 1
            /\ UNCHANGED <<xpc, xresp, xpublished>>
       ELSE /\ xpublished' = IF parseCodexUsage(ev) THEN xpublished + 1 ELSE xpublished
            /\ xresp' = [from |-> xline]
            /\ xpc' = "done"
            /\ UNCHANGED xline
    /\ UNCHANGED <<xbody, xdata, xerr>>

\* The loop ends without a response.completed event.
ViaStreamClosed ==
    /\ UNCHANGED outsideVia
    /\ xpc = "lines"
    /\ xline > Len(xdata)
    /\ xpc' = "done"
    /\ xerr' = Failed(408)
    /\ UNCHANGED <<xbody, xdata, xline, xresp, xpublished>>

(***************************************************************************)
(*                    PROMPT-CACHE TTL (pure function)                     *)
(***************************************************************************)

\* Durations are in seconds.
Hour == 3600

\* const maxTTL = 7 * 24 * time.Hour.
MaxTTL == 604800

\* config.DefaultCodexPromptCacheTTLSeconds.
DefaultCodexPromptCacheTTLSeconds == 3600

\* prompt_cache_retention values of a request whose id is derived, so none that
\* disables the cache: absent, JSON true, JSON null, the numbers 5 and 700000
\* (more than seven days), a number between 0 and 1 (type "fraction": Float()
\* is positive and Int() is 0), and strings that time.ParseDuration accepts
\* ("5m", "1000h", "-5m") or rejects ("in_memory", "24 hours").
TTLRetentions ==
    {RetAbsent, RetFive,
     [type |-> "true", num |-> 0, str |-> ""],
     [type |-> "null", num |-> 0, str |-> ""],
     [type |-> "number", num |-> 700000, str |-> ""],
     [type |-> "fraction", num |-> 0, str |-> ""],
     [type |-> "string", num |-> 0, str |-> ""],
     [type |-> "string", num |-> 0, str |-> "5m"],
     [type |-> "string", num |-> 0, str |-> "1000h"],
     [type |-> "string", num |-> 0, str |-> "-5m"],
     [type |-> "string", num |-> 0, str |-> "in_memory"],
     [type |-> "string", num |-> 0, str |-> "24 hours"]}

\* cfg: nil, or a Config with its CodexPromptCache.TTLSeconds.
NilConfig == [nil |-> TRUE, TTLSeconds |-> 0]
Configs ==
    {NilConfig} \cup
    [nil : {FALSE}, TTLSeconds : {-1, 0, 7, 600, 86400, 604800, 1000000}]

\* time.ParseDuration on the strings of the model.
ParseDuration(str) ==
    CASE str = "5m" -> [ok |-> TRUE, d |-> 300]
      [] str = "1000h" -> [ok |-> TRUE, d |-> 3600000]
      [] str = "-5m" -> [ok |-> TRUE, d |-> -300]
      [] OTHER -> [ok |-> FALSE, d |-> 0]

\* clampCodexPromptCacheTTL.
clampCodexPromptCacheTTL(ttl) ==
    IF ttl <= 0 THEN Hour ELSE IF ttl > MaxTTL THEN MaxTTL ELSE ttl

\* Mutant of codexPromptCacheRetentionTTL: a number of seconds is raised to a
\* minute at least.
codexPromptCacheRetentionTTLMinute(ret) ==
    CASE ret.type = "number" -> IF ret.num > 0 /\ ret.num < 60 THEN 60
                                ELSE IF ret.num > 0 THEN ret.num ELSE Hour
      [] ret.type = "fraction" -> 0
      [] ret.type = "string" /\ ParseDuration(ret.str).ok /\ ParseDuration(ret.str).d > 0 ->
             ParseDuration(ret.str).d
      [] OTHER -> Hour

\* codexPromptCacheRetentionTTL.
codexPromptCacheRetentionTTL(ret) ==
    CASE ret.type = "absent" -> Hour
      [] ret.type = "true" -> Hour
      [] ret.type = "number" -> IF ret.num > 0 THEN ret.num ELSE Hour
      [] ret.type = "fraction" -> 0
      [] ret.type = "string" ->
             IF ret.str = "" THEN Hour
             ELSE IF ParseDuration(ret.str).ok /\ ParseDuration(ret.str).d > 0
                  THEN ParseDuration(ret.str).d
                  ELSE Hour
      [] OTHER -> Hour

\* The configured default and the global default of codexPromptCacheEffectiveTTL.
ConfiguredOrDefaultTTL(cfg) ==
    IF ~cfg.nil /\ cfg.TTLSeconds > 0
    THEN clampCodexPromptCacheTTL(cfg.TTLSeconds)
    ELSE clampCodexPromptCacheTTL(DefaultCodexPromptCacheTTLSeconds)

\* codexPromptCacheEffectiveTTL.
codexPromptCacheEffectiveTTL(cfg, ret) ==
    IF ret.type # "absent"
    THEN IF cacheDisabledByRetention([NoPayload EXCEPT !.prompt_cache_retention = ret])
         THEN 0
         ELSE IF codexPromptCacheRetentionTTL(ret) > 0
              THEN clampCodexPromptCacheTTL(codexPromptCacheRetentionTTL(ret))
              ELSE ConfiguredOrDefaultTTL(cfg)
    ELSE ConfiguredOrDefaultTTL(cfg)

EParked ==
    /\ eret = RetAbsent
    /\ ecfg = NilConfig
    /\ epc = "idle"
    /\ ettl = 0

\* A request whose id is derived, under any configuration.
EInit ==
    /\ eret \in TTLRetentions
    /\ ecfg \in Configs
    /\ epc = "idle"
    /\ ettl = 0

\* resolveCodexPromptCacheID evaluates codexPromptCacheEffectiveTTL for the
\* call of getOrCreateCodexPromptCacheID.
EffectiveTTL ==
    /\ UNCHANGED outsideTTL
    /\ epc = "idle"
    /\ ettl' = codexPromptCacheEffectiveTTL(ecfg, eret)
    /\ epc' = "done"
    /\ UNCHANGED <<eret, ecfg>>

\* Calls of getOrCreateCodexPromptCacheID whose keys are compared.
NumKeyCalls == 2

KeyCalls == 1..NumKeyCalls

\* Models and user ids, some of which contain the separator of the key.
KeyModels == {"gpt-5", "gpt-5-codex", "gpt-4.1"}

KeyUsers == {"", "u1", "codex-u1", "user-123"}

\* getOrCreateCodexPromptCacheID: the key under which the id is looked up and
\* stored ("" when the trimmed model or user id is empty and no id is made).
CacheKeyOf(model, userID) ==
    IF TrimValue(model) = "" \/ TrimValue(userID) = ""
    THEN ""
    ELSE DerivedKey(TrimValue(model), TrimValue(userID))

KParked ==
    /\ kreq = [i \in KeyCalls |-> [model |-> "", userID |-> ""]]
    /\ kkey = [i \in KeyCalls |-> Missing]

KInit ==
    /\ kreq \in [KeyCalls -> [model : KeyModels, userID : KeyUsers]]
    /\ kkey = [i \in KeyCalls |-> Missing]

\* Call i formats its key.
FormatKey(i) ==
    /\ UNCHANGED outsideKey
    /\ kkey[i] = Missing
    /\ kkey' = [kkey EXCEPT ![i] = CacheKeyOf(kreq[i].model, kreq[i].userID)]
    /\ UNCHANGED kreq

(***************************************************************************)
(*                           SPECIFICATIONS                                *)
(***************************************************************************)

ToolParked == TInit /\ tpolicy = ""

CacheParked == CParked /\ cdistributed = FALSE /\ csequential = FALSE

\* Concurrent proxy processes resolving derived keys against one store.
CacheInit ==
    ToolParked /\ SParked /\ WParked /\ GParked /\ PWParked /\ XParked /\ EParked /\ KParked /\ CParked /\ cdistributed \in BOOLEAN /\ csequential = FALSE

CacheNext ==
    \/ \E p \in CacheCalls, m \in Models, u \in Users :
          GetOrCreateCodexPromptCacheID(p, m, u)
    \/ \E p \in CacheCalls, err \in BOOLEAN : RedisGet(p, err)
    \/ \E p \in CacheCalls, err \in BOOLEAN : RedisDelete(p, err)
    \/ \E p \in CacheCalls, err \in BOOLEAN : RedisSetNX(p, err)
    \/ \E p \in CacheCalls, err \in BOOLEAN : RedisGetWinner(p, err)
    \/ \E p \in CacheCalls : LocalGet(p)
    \/ \E p \in CacheCalls : LocalSet(p)
    \/ \E k \in CacheKeys, v \in BlankValues : BlankWrite(k, v)
    \/ \E k \in CacheKeys : RedisExpire(k)
    \/ \E q \in CacheCalls, k \in CacheKeys : LocalExpire(q, k)

CacheSpec == CacheInit /\ [][CacheNext]_vars

\* One proxy process making applyCodexPromptCache calls one after the other.
PromptInit ==
    ToolParked /\ SParked /\ WParked /\ GParked /\ PWParked /\ XParked /\ EParked /\ KParked /\ CParked /\ cdistributed \in BOOLEAN /\ csequential = TRUE

PromptNext ==
    \/ \E p \in CacheCalls, f \in SourceFormats, pl \in Payloads, m \in Models,
         sk \in BOOLEAN :
          ApplyCodexPromptCache(p, f, pl, m, sk)
    \/ \E p \in CacheCalls, err \in BOOLEAN : RedisGet(p, err)
    \/ \E p \in CacheCalls, err \in BOOLEAN : RedisDelete(p, err)
    \/ \E p \in CacheCalls, err \in BOOLEAN : RedisSetNX(p, err)
    \/ \E p \in CacheCalls, err \in BOOLEAN : RedisGetWinner(p, err)
    \/ \E p \in CacheCalls : LocalGet(p)
    \/ \E p \in CacheCalls : LocalSet(p)
    \/ \E k \in CacheKeys, v \in BlankValues : BlankWrite(k, v)
    \/ \E k \in CacheKeys : RedisExpire(k)
    \/ \E q \in CacheCalls, k \in CacheKeys : LocalExpire(q, k)

PromptSpec == PromptInit /\ [][PromptNext]_vars

\* One applyCodexPromptCache call on any input, with the store answering.
ResolveNext ==
    \/ \E f \in SourceFormats, pl \in AllPayloads, m \in Models, sk \in BOOLEAN :
          ApplyCodexPromptCache(1, f, pl, m, sk)
    \/ \E err \in BOOLEAN : RedisGet(1, err)
    \/ \E err \in BOOLEAN : RedisSetNX(1, err)
    \/ LocalGet(1)
    \/ LocalSet(1)

ResolveSpec == PromptInit /\ [][ResolveNext]_vars

\* codexPromptCacheEffectiveTTL on every input of the model.
TTLInit ==
    ToolParked /\ CacheParked /\ SParked /\ WParked /\ GParked /\ PWParked /\ XParked /\ EInit /\ KParked

TTLNext == EffectiveTTL

TTLSpec == TTLInit /\ [][TTLNext]_vars

\* The keys of two getOrCreateCodexPromptCacheID calls on any two inputs.
KeyInit ==
    ToolParked /\ CacheParked /\ SParked /\ WParked /\ GParked /\ PWParked /\ XParked /\ EParked /\ KInit

KeyNext == \E i \in KeyCalls : FormatKey(i)

KeySpec == KeyInit /\ [][KeyNext]_vars

\* The tool-call runtime on its own.
ToolInit == TInit /\ CacheParked /\ SParked /\ WParked /\ GParked /\ PWParked /\ XParked /\ EParked /\ KParked

ToolSpec == ToolInit /\ [][TNext]_vars

\* The tool-call runtime with a Hook whose OnToolEvent may panic.
HookNext ==
    \/ TNext
    \/ \E p \in Calls : HookPanics(p)

HookSpec == ToolInit /\ [][HookNext]_vars

\* One streamed HTTP request after ExecuteStream returned its StreamResult.
StreamInit == ToolParked /\ CacheParked /\ WParked /\ GParked /\ PWParked /\ XParked /\ EParked /\ KParked /\ SInit

StreamNext ==
    \/ \E o \in ScanOutcomes, n \in 0..MaxChunks : Scan(o, n)
    \/ \E o \in ScanOutcomes, n \in 0..MaxChunks : ReadAll(o, n)
    \/ \E n \in 0..MaxChunks : TranslateDone(n)
    \/ \E o \in ScanOutcomes \cup {"context_done"}, n \in 0..MaxChunks :
          ReadMessage(o, n)
    \/ Deliver
    \/ SendAbandoned
    \/ ProducerExit
    \/ CloseOut
    \/ CancelContext
    \/ ConsumerStops

StreamSpec == StreamInit /\ [][StreamNext]_vars

\* Requests to the Codex WebSocket executor, with and without an execution
\* session, their sessions' reader goroutines and CloseExecutionSession calls.
WSInit == ToolParked /\ CacheParked /\ SParked /\ WParked /\ GParked /\ PWParked /\ XParked /\ EParked /\ KParked

WSNext ==
    \/ \E r \in Requests, k \in RequestKinds, sid \in SessionIDs \cup {""},
         prev \in BOOLEAN :
          StartRequest(r, k, sid, prev)
    \/ \E r \in Requests : LockSession(r)
    \/ \E r \in Requests, o \in {"ok", "fail", "upgrade"} : Connect(r, o)
    \/ \E r \in Requests : SetActive(r)
    \/ \E r \in Requests, ok \in BOOLEAN : WriteRequest(r, ok)
    \/ \E r \in Requests, o \in {"ok", "fail", "upgrade"} : RetryConnect(r, o)
    \/ \E r \in Requests, ok \in BOOLEAN : RetryWrite(r, ok)
    \/ \E r \in Requests, o \in UpstreamMessages \cup {"err"} : ReadDirect(r, o)
    \/ \E r \in Requests : ReadChannel(r)
    \/ \E r \in Requests : CancelRequest(r)
    \/ \E r \in Requests : ContextDone(r)
    \/ \E c \in Conns, o \in UpstreamMessages \cup {"err"} : ReaderRead(c, o)
    \/ \E c \in Conns, sent \in BOOLEAN : ReaderNotify(c, sent)
    \/ \E c \in Conns : ReaderInvalidate(c)
    \/ \E c \in Conns : UpstreamDrop(c)
    \/ \E sid \in SessionIDs : CloseExecutionSession(sid)

WSSpec == WSInit /\ [][WSNext]_vars

\* The steps the executor's goroutines take by themselves, an answer of the
\* upstream to a frame and the read deadline included.
SessionStep ==
    \/ \E r \in Requests : LockSession(r)
    \/ \E r \in Requests, o \in {"ok", "fail", "upgrade"} : Connect(r, o)
    \/ \E r \in Requests : SetActive(r)
    \/ \E r \in Requests, ok \in BOOLEAN : WriteRequest(r, ok)
    \/ \E r \in Requests, o \in {"ok", "fail", "upgrade"} : RetryConnect(r, o)
    \/ \E r \in Requests, ok \in BOOLEAN : RetryWrite(r, ok)
    \/ \E r \in Requests : ReadChannel(r)
    \/ \E r \in Requests : ContextDone(r)
    \/ \E c \in Conns, o \in UpstreamMessages \cup {"err"} : ReaderRead(c, o)
    \/ \E c \in Conns, sent \in BOOLEAN : ReaderNotify(c, sent)
    \/ \E c \in Conns : ReaderInvalidate(c)
    \/ \E c \in Conns : IdleDeadline(c)

\* Requests made in one execution session; every goroutine keeps running, the
\* upstream answers or the read deadline runs out, and nothing obliges a
\* caller to cancel.
SessionNext ==
    \/ \E r \in Requests, k \in RequestKinds, sid \in SessionIDs :
          StartRequest(r, k, sid, FALSE)
    \/ SessionStep
    \/ \E r \in Requests : CancelRequest(r)
    \/ \E c \in Conns : UpstreamDrop(c)

SessionFairSpec == WSInit /\ [][SessionNext]_vars /\ WF_vars(SessionStep)

GCLIInit == ToolParked /\ CacheParked /\ SParked /\ WParked /\ GParked /\ PWParked /\ XParked /\ EParked /\ KParked

GCLINext ==
    \/ \E k \in {"Execute", "ExecuteStream"}, alt \in BOOLEAN, m \in GeminiBaseModels,
         rt \in RuntimeKinds, meta \in CredentialMetadata \cup {NilMetadata} :
          GStart(k, alt, m, rt, meta)
    \/ \E expired \in BOOLEAN, ok \in BOOLEAN : PrepareTokenSource(expired, ok)
    \/ TokenExpires
    \/ \E ok \in BOOLEAN, st \in UpstreamStatuses, n \in 0..MaxUsageLines :
          Attempt(ok, st, n)
    \/ \E rt \in RuntimeKinds, meta \in CredentialMetadata \cup {NilMetadata} :
          GRefresh(rt, meta)

GCLISpec == GCLIInit /\ [][GCLINext]_vars

WriteInit == ToolParked /\ CacheParked /\ SParked /\ WParked /\ GParked /\ PWInit /\ XParked /\ EParked /\ KParked

WriteNext ==
    \/ BeginFrame
    \/ \E ok \in BOOLEAN : EndFrame(ok)
    \/ \E c \in WriterConns : PingArrives(c)
    \/ \E w \in Writers, c \in WriterConns : BeginPong(w, c)
    \/ \E w \in Writers : EndPong(w)

WriteSpec == WriteInit /\ [][WriteNext]_vars

\* The goroutine is scheduled whenever it can run, and a blocked send meets a
\* consumer that stays at its receive; nothing obliges the caller to cancel,
\* or to go on receiving after it canceled.
StreamFairSpec == StreamSpec /\ WF_vars(ProducerStep)

\* One non-streaming call of the Codex HTTP executor.
ViaInit ==
    ToolParked /\ CacheParked /\ SParked /\ WParked /\ GParked /\ PWParked /\ XInit /\ EParked /\ KParked

ViaNext ==
    \/ \E o \in {"errDo", "500", "200"} : ViaDo(o)
    \/ \E ok \in BOOLEAN : ViaReadAll(ok)
    \/ ViaLine
    \/ ViaStreamClosed

ViaSpec == ViaInit /\ [][ViaNext]_vars

(***************************************************************************)
(*           Properties of the writers of a WebSocket connection           *)
(***************************************************************************)

\* The goroutines that are inside a write to connection c.
Writing(c) == {w \in Writers : pwpc[w] # "idle" /\ pwconn[w] = c}

NoOverlappingWrites == \A c \in WriterConns : Cardinality(Writing(c)) <= 1

\* C15 as stated: no two writes to one connection overlap, and every request
\* frame and every pong is written while holding the session's write mutex.
C15_WritesUnderWriteMutex ==
    /\ NoOverlappingWrites
    /\ \A w \in Writers : pwpc[w] # "idle" => pwMu = w

\* C15, amended: no two writes to one connection overlap; within a session
\* every frame and every pong is written while holding sess.writeMu; without
\* a session no mutex is held and the request's goroutine is the only writer.
C15_NoOverlappingWrites ==
    /\ NoOverlappingWrites
    /\ \A w \in Writers :
          pwpc[w] # "idle" => IF pwSession THEN pwMu = w
                              ELSE w = "request" /\ pwMu = ""

\* Within a session a reader goroutine writes a pong while the request waits
\* to resend its frame and another ping is pending.
C15_Witness ==
    /\ pwSession
    /\ pwphase = "resend"
    /\ pwpc["request"] = "idle"
    /\ \E w \in Writers : pwpc[w] = "pong" /\ pwMu = w
    /\ \E c \in WriterConns : pwpings[c] > 0

(***************************************************************************)
(*                 Properties of the Gemini CLI executor                   *)
(***************************************************************************)

\* C11: Execute and ExecuteStream leave the passed credential's metadata as it
\* was when it was passed; only Refresh produces a changed credential.
C11_AuthUnchanged ==
    greq.kind \in {"Execute", "ExecuteStream"} => gauth.Metadata = gpassed

\* C22: Execute and ExecuteStream try the models of the fallback list in
\* order, moving to the next model only after an HTTP 429: the first 2xx
\* response is returned, any other non-2xx status ends the request at once,
\* each model is attempted at most once, and usage is published once, from the
\* 2xx response.
C22_FallbackInOrderPublishedOnce ==
    LET models == GetFallbackModels(greq.model)
        n == Len(gtried)
    IN greq.kind \in {"Execute", "ExecuteStream"} =>
          /\ n <= Len(models)
          /\ \A i \in 1..n : gtried[i].model = models[i]
          /\ \A i \in 1..(n - 1) : gtried[i].status = "429"
          /\ n > 0 /\ gtried[n].status # "429" => gpc = "done"
          /\ gpc = "done" /\ n > 0 =>
                gres = IF gtried[n].status = "200" THEN "ok: " \o gtried[n].model
                       ELSE "error: " \o gtried[n].status
          /\ gpublished = IF gpc = "done" /\ n > 0 /\ gtried[n].status = "200"
                          THEN 1 ELSE 0

(***************************************************************************)
(*              Properties of the Codex WebSocket executor                 *)
(***************************************************************************)

\* C1: on every upstream connection the first frame the executor writes is a
\* response.create, whatever the requests, reconnects, invalidations and
\* session closes, with or without an execution_session_id, with or without
\* previous_response_id in the body.
C1_FirstFrameIsCreate ==
    \A c \in Conns :
        wconns[c].frames # <<>> => Head(wconns[c].frames) = "response.create"

\* Request r writes a frame to its connection in this step.
WritesFrame(r) ==
    /\ wrq[r].pc \in {"write", "retry_write"}
    /\ Len(wconns'[wrq[r].conn].frames) = Len(wconns[wrq[r].conn].frames) + 1

\* A response.create has been written to connection c.
CreateSentOn(c) == \E i \in 1..Len(wconns[c].frames) : wconns[c].frames[i] = "response.create"

\* C23: the frame sent for a request is response.append exactly when the
\* request body carries a non-blank previous_response_id and a response.create
\* has already been sent on the session's current connection; in every other
\* case it is response.create.
C23_AppendIffPreviousAndCreateSent ==
    [][\A r \in Requests :
          WritesFrame(r) =>
              LET c == wrq[r].conn
                  frame == wconns'[c].frames[Len(wconns'[c].frames)]
              IN /\ frame \in {"response.append", "response.create"}
                 /\ frame = "response.append" <=>
                       /\ BodyHasPrevious(wrq[r].kind, wrq[r].previous_response_id)
                       /\ CreateSentOn(c)]_vars

\* The connections of session x that this process has not closed.
OpenConns(x) == {c \in Conns : wconns[c].sess = x /\ wconns[c].state \in {"open", "dropped"}}

\* The connections of session x whose readUpstreamLoop goroutine has not exited.
RunningReaders(x) ==
    {c \in Conns : wconns[c].sess = x
                   /\ wconns[c].reader \in {"running", "notify", "invalidate"}}

\* C12: at every moment each session has at most one open upstream connection
\* and at most one running reader goroutine, and that reader is bound to the
\* session's current connection.
C12_OneConnOneReader ==
    \A x \in Sess :
        /\ Cardinality(OpenConns(x)) <= 1
        /\ Cardinality(RunningReaders(x)) <= 1
        /\ \A c \in RunningReaders(x) : wsess[x].conn = c /\ wsess[x].readerConn = c

\* Request r, which runs in a session, returns in this step because its
\* context is canceled.
CancelExit(r) ==
    /\ wrq[r].sess # 0
    /\ wrq[r].pc # "done"
    /\ wrq'[r].pc = "done"
    /\ wrq'[r].result = "context_done"

\* C13: when a request on a session is canceled via its context, the session
\* mutex is released and the session's connection stays as it is: still the
\* session's connection, not closed, its create-sent flag not reset.
C13_CancelKeepsConnection ==
    [][\A r \in Requests :
          CancelExit(r) =>
              LET x == wrq[r].sess
                  c == wsess[x].conn
              IN /\ wsess'[x].reqMu # r
                 /\ ~wrq'[r].held
                 /\ wsess'[x].conn = c
                 /\ wsess'[x].readerConn = wsess[x].readerConn
                 /\ wsess[x].connCreateSent => wsess'[x].connCreateSent
                 /\ c # 0 => wconns'[c].state = wconns[c].state]_vars

\* A canceled session request has returned; its session is unlocked and still
\* has its open connection, on which response.create has been sent.
C13_Witness ==
    \E r \in Requests :
        /\ wrq[r].pc = "done"
        /\ wrq[r].result = "context_done"
        /\ wrq[r].sess # 0
        /\ LET x == wrq[r].sess
           IN /\ wsess[x].reqMu = 0
              /\ wsess[x].conn # 0
              /\ wsess[x].connCreateSent
              /\ wconns[wsess[x].conn].state = "open"

\* Request r, which runs in a session, takes an upstream event of type error
\* from its read channel in this step.
ReceivesError(r) ==
    /\ wrq[r].sess # 0
    /\ wrq[r].errorEvent = ""
    /\ wrq'[r].errorEvent # ""

\* C16: whenever an upstream event of type error is received during a session
\* request, the session's connection is invalidated (closed, cleared on the
\* session, create-sent flag reset) and the request ends with an error whose
\* status is the event's status or status_code.
C16_ErrorEventInvalidates ==
    [][\A r \in Requests :
          ReceivesError(r) =>
              LET x == wrq[r].sess
                  ev == EventOf(wrq'[r].errorEvent)
              IN /\ wrq'[r].pc = "done"
                 /\ wrq'[r].result = "upstream_error"
                 /\ wrq'[r].code \in {ev.status, ev.status_code} \ {0}
                 /\ wsess'[x].conn = 0
                 /\ ~wsess'[x].connCreateSent
                 /\ wconns'[wrq[r].conn].state = "closed"]_vars

\* A handshake of request r is answered with HTTP 426 in this step.
UpgradeRequired(r) == ~wrq[r].upgradeRequired /\ wrq'[r].upgradeRequired

\* C17: when the handshake is answered with HTTP 426, the same request (same
\* payload and options) is executed by the HTTP executor, the caller gets that
\* executor's result, and no WebSocket frame is sent for the request.
C17_UpgradeFallsBackToHTTP ==
    [][\A r \in Requests :
          UpgradeRequired(r) =>
              /\ wrq'[r].pc = "done"
              /\ wrq'[r].result = "http_fallback"
              /\ wrq'[r].http = CodexExecutorCall(wrq[r])
              /\ \A c \in Conns : Len(wconns'[c].frames) = Len(wconns[c].frames)
              /\ wrq'[r].resends = 0]_vars

\* The requests that are between acquiring their session and releasing it.
Holders == {r \in Requests : wrq[r].held}

\* C7 as stated: no two requests with the same execution_session_id are both
\* between acquiring the session and releasing it, for any interleaving of
\* requests and CloseExecutionSession calls.
C7_SameIDSerialized ==
    \A r1 \in Holders, r2 \in Holders : r1 # r2 => wrq[r1].sid # wrq[r2].sid

\* C7, amended: no two requests are both between acquiring and releasing the
\* same session object, and the holder is the one the session's mutex names.
C7_SameSessionSerialized ==
    /\ \A r1 \in Holders, r2 \in Holders : r1 # r2 => wrq[r1].sess # wrq[r2].sess
    /\ \A r \in Holders : wsess[wrq[r].sess].reqMu = r

\* A request waits at the mutex of the session another request holds.
C7_Witness ==
    \E r1 \in Holders, r2 \in Requests :
        /\ wrq[r2].pc = "lock"
        /\ wrq[r2].sess = wrq[r1].sess
        /\ wrq[r1].pc = "read"

\* The requests whose first write of the request frame failed and that have
\* gone on to read on a connection or have returned.
SendFailures == {r \in Requests : wrq[r].sendFailed /\ wrq[r].pc \in {"read", "done"}}

\* C8 as stated: after a failed write of the request frame the executor makes
\* exactly one reconnect and one resend, never zero, never more, before it
\* continues on the new connection or returns the error.
C8_ExactlyOneReconnectAndResend ==
    \A r \in SendFailures : wrq[r].reconnects = 1 /\ wrq[r].resends = 1

\* C8, amended: a request in an execution session makes exactly one reconnect
\* attempt and, when that succeeds, exactly one resend; a request without a
\* session makes neither and returns the send error; and the frame is never
\* resent unless its first write failed.
C8_OneRetryWithinSession ==
    /\ \A r \in SendFailures :
          IF wrq[r].sess = 0
          THEN /\ wrq[r].reconnects = 0
               /\ wrq[r].resends = 0
               /\ wrq[r].result = "send_error"
          ELSE /\ wrq[r].reconnects = 1
               /\ wrq[r].resends = (IF wrq[r].result = "reconnect_error" THEN 0 ELSE 1)
    /\ \A r \in Requests :
          /\ wrq[r].reconnects <= 1
          /\ wrq[r].resends <= wrq[r].reconnects
          /\ wrq[r].reconnects = 1 => wrq[r].sendFailed

\* A request whose first write failed reconnected, resent, and reads on the
\* new connection.
C8_Witness ==
    \E r \in Requests :
        /\ wrq[r].sendFailed
        /\ wrq[r].pc = "read"
        /\ wrq[r].reconnects = 1
        /\ wrq[r].resends = 1
        /\ Len(wconns[wrq[r].conn].frames) = 1

\* Session request r takes an upstream event of its connection from its read
\* channel in this step.
TakesEvent(r) ==
    /\ ReadChannel(r)
    /\ wrq[r].ch # <<>>
    /\ Head(wrq[r].ch)[1] = wrq[r].conn
    /\ Head(wrq[r].ch)[2] # "err"

\* C33: every upstream event delivered to a request on a shared session
\* connection answers that request's own frame; what the upstream sends for
\* the frame of an earlier, canceled or abandoned turn (its response.completed
\* included) is never delivered to a later request.
C33_EventsAnswerOwnFrame ==
    [][\A r \in Requests : TakesEvent(r) => Head(wrq[r].ch)[3] = r]_vars

\* The session requests whose first write failed, that reconnected and resent,
\* and that read on the new connection while its reader loop still runs.
Retried ==
    {r \in Requests : /\ wrq[r].sess # 0
                      /\ wrq[r].sendFailed
                      /\ wrq[r].resends = 1
                      /\ wrq[r].pc = "read"
                      /\ wconns[wrq[r].conn].reader = "running"}

\* C34: after a send failure followed by a successful reconnect and resend,
\* the read channel of the retried request is still open and still the
\* session's active channel, so that it receives the events of the new
\* connection: the read error met by the reader of the old, invalidated
\* connection neither closes nor clears it.
C34_RetriedChannelStaysActive ==
    \A r \in Retried : ~wrq[r].chClosed /\ wsess[wrq[r].sess].activeCh = r

\* C37: on every exit path of Execute and ExecuteStream that acquired a
\* session the session mutex is released, so that a request that holds it
\* eventually holds it no longer (or the process has gone down in a panic)
\* and a later request on the same session is never blocked forever.
C37_SessionEventuallyReleased ==
    \A r \in Requests : wrq[r].held ~> (~wrq[r].held \/ wpanic)

\* C35: the active read channel of a session request is closed at most once
\* and no reader loop sends on it after it has been closed, for any
\* interleaving of the reader loops of old and new connections: no step of a
\* reader loop panics.
C35_NoDoubleCloseNoSendOnClosed == ~wpanic

(***************************************************************************)
(*                 Properties of the tool-call runtime                     *)
(***************************************************************************)

\* The Execute invocations that carry call id c, raw arguments a and a
\* registered tool name.
SameCall(c, a) ==
    {p \in Calls : /\ tpc[p] # "idle"
                   /\ treq[p].CallID = c
                   /\ treq[p].RawArguments = a
                   /\ lookup(treq[p].ToolName)}

RECURSIVE SumRuns(_)
SumRuns(S) ==
    IF S = {} THEN 0
    ELSE LET p == CHOOSE x \in S : TRUE IN handlerRuns[p] + SumRuns(S \ {p})

\* C2 (as stated): when the Execute calls made on the runtime all carry the
\* same call_id and identical raw arguments for a registered tool, then once
\* they have all returned the handler has run exactly once in total and every
\* call that did not run it returned Duplicate=true.
C2_HandlerExactlyOnce ==
    \A c \in {"c1"}, a \in RawArgs :
        LET S == SameCall(c, a) IN
        (S # {} /\ S = {p \in Calls : tpc[p] # "idle"}
                /\ \A p \in S : tpc[p] = "done") =>
            /\ SumRuns(S) = 1
            /\ \A p \in S : handlerRuns[p] = 0 => tres[p].Duplicate

\* C2 (amended): for the calls that carry the same call_id and identical raw
\* arguments for a registered tool, the handler runs at most once in total; at
\* most one of them returns without Duplicate=true (the one whose Begin
\* inserted the started record, which exists iff the store held no record of
\* the call_id when the first of them began); that call has run the handler
\* exactly once if the arguments satisfy the tool's schema and not at all
\* otherwise, and no duplicate ever runs the handler.
C2_HandlerAtMostOnce ==
    \A c \in {"c1"}, a \in RawArgs :
        LET S == SameCall(c, a)
            returnedFirst == {p \in S : tpc[p] = "done" /\ ~tres[p].Duplicate}
        IN
        /\ SumRuns(S) <= 1
        /\ Cardinality(returnedFirst) <= 1
        /\ \A p \in S : tpc[p] = "done" /\ tres[p].Duplicate => handlerRuns[p] = 0
        /\ \A p \in returnedFirst :
              handlerRuns[p] = (IF validateAgainstDefinition(treq[p].ToolName, a)
                                THEN 1 ELSE 0)

\* Witness of C2: three calls with the same call_id and valid arguments have
\* all returned; one of them ran the handler, the other two are duplicates.
C2_Witness ==
    LET S == SameCall("c1", ArgsA) IN
    /\ S = Calls
    /\ \A p \in S : tpc[p] = "done"
    /\ SumRuns(S) = 1
    /\ Cardinality({p \in S : tres[p].Duplicate}) = NumCalls - 1

\* C5 (as stated): a stored record leaves status started only for one of the
\* terminal statuses, and a record that holds a terminal status is never
\* changed by a later Execute.
C5_TerminalRecordsFrozen ==
    [][\A c \in {"c1"} :
          /\ records[c].Status = "started" =>
                records'[c].Status \in {"started"} \cup Terminal
          /\ records[c].Status \in Terminal =>
                records'[c].Status = records[c].Status]_vars

\* Execute invocation p begins in this step and its call_id has a stored record.
BeginsOnRecord(p) ==
    /\ tpc[p] = "idle"
    /\ tpc'[p] # "idle"
    /\ treq'[p].CallID \in DOMAIN records
    /\ records[treq'[p].CallID].Status # ""

\* The stored record of p's call_id has another args_hash than p's arguments.
ArgsDiffer(p) ==
    records[treq'[p].CallID].ArgsHash # hashArgs(treq'[p].RawArguments)

\* What C24 says of an Execute that meets a record with another args_hash.
ConflictReturned(p) ==
    /\ tpc'[p] = "done"
    /\ tres'[p].Code = "duplicate_call_id_conflict"
    /\ tres'[p].Duplicate
    /\ tres'[p].Conflict
    /\ handlerRuns'[p] = 0
    /\ records' = records

AnsweredBeforeDuplicateCheck(p) ==
    /\ tpc'[p] = "done"
    /\ handlerRuns'[p] = 0
    /\ ~tres'[p].Duplicate
    /\ IF treq'[p].ToolName = ""
       THEN tres'[p].Code = "invalid_request" /\ records' = records
       ELSE /\ tres'[p].Code = "unknown_tool"
            /\ records'[treq'[p].CallID].ErrorCode = "unknown_tool"

OnCompletedRecord(p) == records[treq'[p].CallID].Status \in Terminal

\* What C25 says of an Execute that meets a completed record with its own
\* args_hash: the stored envelope replayed, or the conflict under policy fail.
ReplayedOrRefused(p) ==
    /\ tpc'[p] = "done"
    /\ handlerRuns'[p] = 0
    /\ IF tpolicy = "fail"
       THEN /\ tres'[p].Code = "duplicate_call_id_conflict"
            /\ tres'[p].Status = "duplicate"
       ELSE tres'[p] = [EnvelopeOf(records[treq'[p].CallID])
                            EXCEPT !.Duplicate = TRUE, !.ReplayCached = TRUE]

\* C25 (as stated): an Execute whose call_id has a completed stored record
\* with the same args_hash returns, under the default policy, the stored
\* envelope with duplicate and replay_cached set, and under policy fail the
\* error duplicate_call_id_conflict; in neither case is the handler invoked.
C25_CompletedDuplicateReplayedOrRefused ==
    [][\A p \in Calls :
          BeginsOnRecord(p) /\ ~ArgsDiffer(p) /\ OnCompletedRecord(p) =>
              ReplayedOrRefused(p)]_vars

\* C25 (amended): it is so when the Execute names a registered tool; an
\* Execute that names no registered tool is answered before the duplicate
\* check, without the duplicate flag and without invoking the handler.
C25_CompletedDuplicateOfRegisteredTool ==
    [][\A p \in Calls :
          BeginsOnRecord(p) /\ ~ArgsDiffer(p) /\ OnCompletedRecord(p) =>
              IF lookup(treq'[p].ToolName)
              THEN ReplayedOrRefused(p)
              ELSE AnsweredBeforeDuplicateCheck(p)]_vars

\* Under the default policy an Execute has returned the envelope of a handler
\* run that another call completed, with duplicate and replay_cached set.
C25_Witness ==
    \E p \in Calls :
        /\ tpolicy = ""
        /\ tpc[p] = "done"
        /\ tres[p].Duplicate
        /\ tres[p].ReplayCached
        /\ tres[p].Status = "succeeded"
        /\ handlerRuns[p] = 0
        /\ \E q \in Calls : q # p /\ handlerRuns[q] = 1 /\ treq[q] = treq[p]

\* Execute invocation q has begun (its Store.Begin inserted the started
\* record) and has not completed.
InFlight(q) == tpc[q] \in {"validate", "handler", "complete"}

\* C26: an Execute that arrives while another Execute with the same call_id,
\* tool and arguments has begun but not yet completed returns
\* duplicate_in_flight marked retryable in its own step, without invoking the
\* handler and while the first call is still in flight.
C26_InFlightDuplicateRetryable ==
    [][\A p \in Calls :
          /\ tpc[p] = "idle"
          /\ tpc'[p] # "idle"
          /\ \E q \in Calls \ {p} : InFlight(q) /\ treq[q] = treq'[p]
          => /\ tpc'[p] = "done"
             /\ tres'[p].Code = "duplicate_in_flight"
             /\ tres'[p].Retryable
             /\ tres'[p].Duplicate
             /\ handlerRuns'[p] = 0
             /\ \A q \in Calls \ {p} : InFlight(q) => tpc'[q] = tpc[q]]_vars

\* Execute invocation p returns in this step; it names a registered tool and
\* its raw arguments violate that tool's input schema.
ReturnsOnSchemaViolation(p) ==
    /\ tpc[p] # "done"
    /\ tpc'[p] = "done"
    /\ treq'[p].CallID # ""
    /\ lookup(treq'[p].ToolName)
    /\ treq'[p].RawArguments = ArgsBad

\* What C27 says of such an Execute.
ValidationErrorReturned(p) ==
    /\ tres'[p].Code = "validation_error"
    /\ tres'[p].ValidationFailed
    /\ handlerRuns'[p] = 0
    /\ records'[treq'[p].CallID].Status = "failed"
    /\ records'[treq'[p].CallID].ErrorCode = "validation_error"

\* C27 (as stated): if the raw arguments violate the tool's input schema,
\* Execute returns a validation_error envelope with validation_failed set, the
\* handler is never invoked for that call, and the record is completed as
\* failed.
C27_SchemaViolationGivesValidationError ==
    [][\A p \in Calls : ReturnsOnSchemaViolation(p) => ValidationErrorReturned(p)]_vars

\* C27 (amended): it is so when the call_id had no stored record when the
\* Execute began, so that the Execute reaches the schema validation; an Execute
\* whose call_id has a stored record is answered as a duplicate, without
\* validating its arguments and without invoking the handler.
C27_SchemaViolationOfFirstCall ==
    [][\A p \in Calls :
          ReturnsOnSchemaViolation(p) =>
              IF tpc[p] = "validate"
              THEN ValidationErrorReturned(p) /\ ~tres'[p].Duplicate
              ELSE /\ tpc[p] = "idle"
                   /\ records[treq'[p].CallID].Status # ""
                   /\ tres'[p].Duplicate
                   /\ handlerRuns'[p] = 0
                   /\ records' = records]_vars

\* An Execute with arguments that violate the schema has returned the
\* validation error and its record is completed as failed.
C27_Witness ==
    \E p \in Calls :
        /\ tpc[p] = "done"
        /\ treq[p].RawArguments = ArgsBad
        /\ tres[p].Code = "validation_error"
        /\ tres[p].ValidationFailed
        /\ ~tres[p].Duplicate
        /\ handlerRuns[p] = 0
        /\ records[treq[p].CallID].Status = "failed"

\* Execute invocation p returns in this step, after its handler has run.
ReturnsAfterHandler(p) == tpc[p] = "complete" /\ tpc'[p] = "done"

\* The code, record status and meta flags C28 gives for what the handler did.
ClassifiedAs(p, code, status, timedOut, canceled) ==
    /\ tres'[p].Code = code
    /\ tres'[p].Status = status
    /\ tres'[p].TimedOut = timedOut
    /\ tres'[p].Canceled = canceled
    /\ records'[treq[p].CallID].Status = status
    /\ records'[treq[p].CallID].ErrorCode = code

\* C28: a handler outcome is classified into exactly one terminal status: an
\* error matching context.DeadlineExceeded gives code timeout, meta timed_out
\* and record status timeout; context.Canceled gives code canceled and status
\* canceled; a handler panic is recovered into code panic; a ToolError is
\* passed through; any other error gives handler_error; in each case Execute
\* returns with the record completed.
C28_HandlerOutcomeClassified ==
    [][\A p \in Calls :
          ReturnsAfterHandler(p) =>
              /\ tres'[p].returned
              /\ records'[treq[p].CallID].Status \in Terminal
              /\ CASE texecErr[p] = "deadline_exceeded" ->
                          ClassifiedAs(p, "timeout", "timeout", TRUE, FALSE)
                   [] texecErr[p] = "context_canceled" ->
                          ClassifiedAs(p, "canceled", "canceled", FALSE, TRUE)
                   [] texecErr[p] = "panic" ->
                          ClassifiedAs(p, "panic", "failed", FALSE, FALSE)
                   [] texecErr[p] = "tool_error" ->
                          ClassifiedAs(p, "tool_error", "failed", FALSE, FALSE)
                   [] texecErr[p] = "error" ->
                          ClassifiedAs(p, "handler_error", "failed", FALSE, FALSE)
                   [] texecErr[p] = "ok" ->
                          ClassifiedAs(p, "", "succeeded", FALSE, FALSE)
                   [] OTHER -> FALSE]_vars

\* A handler ran into its deadline; the Execute has returned the timeout
\* envelope and the record of its call_id is completed with status timeout.
C28_Witness ==
    \E p \in Calls :
        /\ tpc[p] = "done"
        /\ handlerRuns[p] = 1
        /\ texecErr[p] = "deadline_exceeded"
        /\ tres[p].Code = "timeout"
        /\ tres[p].TimedOut
        /\ records[treq[p].CallID].Status = "timeout"

\* The Execute invocations on call_id c that are between Store.Begin and
\* their return.
Running(c) ==
    {p \in Calls : treq[p].CallID = c /\ tpc[p] \in {"validate", "handler", "complete"}}

\* C38: when Execute returns or unwinds after inserting a started record for a
\* call_id, the record has been completed with a terminal status: no record
\* is in started unless an Execute on its call_id is still running, whether
\* the exit is a handler error, a handler panic, a validation failure or a
\* failure of the hook.
C38_NoRecordLeftStarted ==
    \A c \in DOMAIN records : records[c].Status = "started" => Running(c) # {}

\* Execute is invoked as call q in this step, with the call_id, tool and
\* arguments of a stored record that ended in timeout or canceled and is
\* marked retryable.
RetriesRetryable(q) ==
    /\ tpc[q] = "idle"
    /\ tpc'[q] # "idle"
    /\ treq'[q].CallID \in DOMAIN records
    /\ LET existing == records[treq'[q].CallID]
       IN /\ existing.Status \in {"timeout", "canceled"}
          /\ existing.Retryable
          /\ existing.ToolName = treq'[q].ToolName
          /\ existing.ArgsHash = hashArgs(treq'[q].RawArguments)

\* C39: distinct (model, user id) pairs never resolve to the same cache id:
\* the derived key, under which the id is stored and looked up, is injective
\* in the pair.
C39_DerivedKeyInjective ==
    \A i, j \in KeyCalls :
        (kkey[i] \notin {Missing, ""} /\ kkey[j] \notin {Missing, ""}
            /\ kreq[i] # kreq[j])
        => kkey[i] # kkey[j]

\* C40: an error envelope marked retryable is honoured on retry: an Execute
\* re-issued with the call_id and the arguments of a call that ended in
\* timeout or canceled goes on to run the handler again and is not returned
\* the cached failure envelope.
C40_RetryableFailureRunsAgain ==
    [][\A q \in Calls :
          RetriesRetryable(q) => tpc'[q] = "validate" /\ ~tres'[q].returned]_vars

(***************************************************************************)
(*                Properties of the prompt-cache coordinator               *)
(***************************************************************************)

\* Calls that went on to resolve a derived key.
Derived == {p \in CacheCalls : ckey[p] # ""}

SameSourceModelUser(p, q) ==
    /\ creq[p].from = creq[q].from
    /\ creq[p].model = creq[q].model
    /\ codexPromptCacheUserID(creq[p].payload) = codexPromptCacheUserID(creq[q].payload)

C9_AtMostOneDelete ==
    \A p \in CacheCalls : cdeletes[p] <= 1 /\ cpasses[p] <= 2

\* Every call made so far resolves the same derived key, and all of them
\* began before any of them returned.
SameKeyConcurrently ==
    /\ cdistributed /\ ~csequential
    /\ \A p \in CacheCalls : cpc[p] # "idle" => ckey[p] # "" /\ cafter[p] = {}
    /\ \A p, q \in Derived : ckey[p] = ckey[q]

\* Exactly one proposed UUID has been stored and every caller that returned
\* has returned it.
OneStoredAndReturned ==
    /\ Cardinality(cstored) <= 1
    /\ \A p \in Derived : cpc[p] = "done" =>
          /\ Cardinality(cstored) = 1
          /\ cres[p].cache_id \in cstored

\* C10 (as stated): processes that resolve the same key concurrently, with no
\* store error and no blank value, store exactly one proposed UUID by
\* set-if-absent and all return it.
C10_ExactlyOneStored ==
    (SameKeyConcurrently /\ cenv.errors = 0 /\ cenv.blanks = 0)
    => OneStoredAndReturned

\* C10 (amended): the same, when in addition the key neither expires nor is
\* deleted while the calls run.
C10_ExactlyOneStoredWhileKeyLives ==
    (SameKeyConcurrently /\ cenv.errors = 0 /\ cenv.blanks = 0 /\ cenv.expiries = 0)
    => OneStoredAndReturned

\* C10 witness: two overlapping calls on one key have both returned the one
\* stored UUID, one of them after losing the set-if-absent.
C10_Witness ==
    /\ SameKeyConcurrently
    /\ cenv = [errors |-> 0, blanks |-> 0, expiries |-> 0]
    /\ cpc[1] = "done" /\ cpc[2] = "done"
    /\ cstored = {cres[1].cache_id}
    /\ cres[2].cache_id = cres[1].cache_id

\* The prompt_cache_key the request payload carries, as written in the payload:
\* the top-level one unless it is blank, else the one in metadata.
CarriedKey(payload) ==
    IF payload.prompt_cache_key \notin BlankValues
    THEN payload.prompt_cache_key
    ELSE payload.metadata_prompt_cache_key

\* Call p deletes the key from the distributed store in this step.
DeletesKey(p) == cpc[p] = "redis_del" /\ cdeletes'[p] = cdeletes[p] + 1

\* C36: the blank-value repair never deletes a valid (non-blank) value written
\* by another process: the delete a caller issues after observing a blank
\* value does not remove a UUID another caller has stored under the key in
\* the meantime.
C36_RepairDeletesOnlyBlank ==
    [][\A p \in CacheCalls :
          DeletesKey(p) => credis[ckey[p]] \notin cstored]_vars

\* Call p has returned and its payload carried a non-blank prompt_cache_key.
ReturnedWithKey(p) ==
    /\ cpc[p] = "done"
    /\ cres[p].returned
    /\ CarriedKey(creq[p].payload) \notin BlankValues

\* The cache id, the body's prompt_cache_key and both headers are all `key`.
AllEqual(res, key) ==
    /\ res.cache_id = key
    /\ res.prompt_cache_key = key
    /\ res.Conversation_id = key
    /\ res.Session_id = key

\* The call was told to skip empty bodies and the translated body is empty.
BodySkipped(req) == req.skipIfBodyEmpty /\ req.payload.raw_empty

\* C29 (as stated): whenever the request payload carries a non-blank
\* prompt_cache_key (top level or in metadata), the returned cache id, the
\* body's prompt_cache_key and the Conversation_id and Session_id headers all
\* equal that key, regardless of source format and of any
\* prompt_cache_retention value, including off.
C29_ExplicitKeyAlwaysWins ==
    \A p \in CacheCalls :
        ReturnedWithKey(p) => AllEqual(cres[p], CarriedKey(creq[p].payload))

\* C29 (amended): they all equal that key with its surrounding white space
\* removed, the top-level key taking precedence over the one in metadata,
\* unless the call skips empty bodies and the translated body is empty: then
\* the cache id is empty, the body is left as it is and no header is returned.
C29_ExplicitKeyWinsUnlessBodySkipped ==
    \A p \in CacheCalls :
        ReturnedWithKey(p) =>
            IF BodySkipped(creq[p])
            THEN AllEqual(cres[p], "")
            ELSE AllEqual(cres[p], TrimValue(CarriedKey(creq[p].payload)))

\* A call from a non-Claude source whose payload carries a key and retention
\* "off" has returned that key as cache id.
C29_Witness ==
    /\ cpc[1] = "done"
    /\ creq[1].from = "codex"
    /\ creq[1].payload.prompt_cache_retention = RetOff
    /\ creq[1].payload.metadata_prompt_cache_key = "k2"
    /\ creq[1].payload.prompt_cache_key = " "
    /\ cres[1].cache_id = "k2"
    /\ cres[1].Session_id = "k2"

\* The conditions C30 names for deriving a cache id.
MayDerive(req) ==
    /\ ~cacheDisabledByRetention(req.payload)
    /\ req.payload.user_id \notin BlankValues
    /\ req.from # "claude" => req.payload.prompt_cache_retention.type # "absent"

\* C30: with no explicit prompt_cache_key, a cache id is derived only when
\* prompt_cache_retention is not false-like and a user id is present and, for
\* non-Claude sources, only when prompt_cache_retention is explicitly present;
\* in all other cases the call returns at once with the body unchanged, an
\* empty cache id and no headers.
C30_DerivedOnlyWhenRequested ==
    \A p \in CacheCalls :
        /\ cpc[p] # "idle"
        /\ CarriedKey(creq[p].payload) \in BlankValues
        /\ ~MayDerive(creq[p])
        => /\ cpc[p] = "done"
           /\ cres[p].returned
           /\ ckey[p] = ""
           /\ AllEqual(cres[p], "")

\* A call from a non-Claude source with a user id and no retention hint, on a
\* body that is not skipped, has returned without a cache id.
C30_Witness ==
    /\ cpc[1] = "done"
    /\ creq[1].from = "codex"
    /\ creq[1].payload.user_id = "user-123"
    /\ creq[1].payload.prompt_cache_key = ""
    /\ creq[1].payload.metadata_prompt_cache_key = ""
    /\ creq[1].payload.prompt_cache_retention = RetAbsent
    /\ ~BodySkipped(creq[1])
    /\ cres[1].cache_id = ""

\* The positive duration a prompt_cache_retention value gives, in seconds: the
\* number itself, or the parsed duration of a string; 0 when it gives none.
RetentionDuration(ret) ==
    CASE ret.type = "number" /\ ret.num > 0 -> ret.num
      [] ret.type = "string" /\ ParseDuration(ret.str).ok /\ ParseDuration(ret.str).d > 0 ->
             ParseDuration(ret.str).d
      [] OTHER -> 0

\* min(d, 7 days).
AtMostMaxTTL(d) == IF d > MaxTTL THEN MaxTTL ELSE d

\* C31: the effective prompt-cache TTL used for a derived id always lies in
\* (0, 7 days]; it is the request's prompt_cache_retention value when that
\* gives a positive duration (numeric 5 gives exactly 5 seconds), otherwise
\* the configured default, otherwise 1 hour.
C31_EffectiveTTLByPriority ==
    epc = "done" =>
        /\ ettl > 0
        /\ ettl <= MaxTTL
        /\ ettl = IF RetentionDuration(eret) > 0
                  THEN AtMostMaxTTL(RetentionDuration(eret))
                  ELSE IF ~ecfg.nil /\ ecfg.TTLSeconds > 0
                       THEN AtMostMaxTTL(ecfg.TTLSeconds)
                       ELSE Hour

\* The part of C31 that holds: the TTL lies in (0, 7 days], and a retention
\* value that gives a positive duration is used as it is up to seven days.
TTLInRangeAndRetentionFirst ==
    epc = "done" =>
        /\ ettl > 0
        /\ ettl <= MaxTTL
        /\ RetentionDuration(eret) > 0 => ettl = AtMostMaxTTL(RetentionDuration(eret))

\* A distributed-store operation of call p fails in this step.
StoreOperationFails(p) == cenv'.errors > cenv.errors /\ cpc'[p] # cpc[p]

\* C32: if any distributed-store operation (connect, get, set-if-absent,
\* delete) fails, cache id resolution still succeeds by falling back to the
\* local map: the call goes on with the local map, and the call of a derived
\* key returns a non-empty id whatever the store did.
C32_StoreErrorFallsBackToLocal ==
    [][\A p \in CacheCalls :
          /\ StoreOperationFails(p) => cpc'[p] = "local_get"
          /\ cpc[p] = "local_get" => cpc'[p] \in {"local_get", "local_set", "done"}
          /\ cpc[p] # "done" /\ cpc'[p] = "done" /\ ckey'[p] # "" =>
                /\ cres'[p].returned
                /\ cres'[p].cache_id # ""
                /\ cpc[p] \in {"local_get", "local_set"} => cvia'[p] = "local"]_vars

\* A store operation of the only call failed and the call has returned an id
\* of the local map.
C32_Witness ==
    /\ cdistributed
    /\ cenv.errors = 1
    /\ cpc[1] = "done"
    /\ cpc[2] = "idle"
    /\ cvia[1] = "local"
    /\ cres[1].cache_id # ""
    /\ clocal[ProcOf(1)][ckey[1]] = cres[1].cache_id

(***************************************************************************)
(*                 Properties of the streaming producers                   *)
(***************************************************************************)

\* C3: once ExecuteStream has returned a StreamResult, the producer eventually
\* closes the output channel, whether the upstream ends, a read fails or the
\* context is canceled.
C3_OutputEventuallyCloses == <>sclosed

\* C4: once the caller's context is canceled, the executor closes the upstream
\* response and the chunk channel, whether or not the caller receives again.
C4_CancelClosesStream == (sctx = "canceled") ~> (sclosed /\ sbodyClosed)

\* C14: for any request canceled via context, the upstream connection (HTTP
\* response body or WebSocket connection) is closed before the output channel
\* is closed.
C14_UpstreamClosedBeforeOutput ==
    sctx = "canceled" /\ sclosed => sbodyClosed

\* C14, amended: it is so for the HTTP producers and for a WebSocket request
\* without an execution session; within a session the shared connection is
\* not closed at all.
C14_OwnUpstreamClosedBeforeOutput ==
    /\ sctx = "canceled" /\ sclosed /\ skind # "codex_ws_session" => sbodyClosed
    /\ skind = "codex_ws_session" => ~sbodyClosed

\* A canceled request's producer has closed its upstream and is about to
\* close the output channel.
C14_Witness ==
    /\ sctx = "canceled"
    /\ spc = "close_out"
    /\ sbodyClosed
    /\ ~sclosed

\* The chunks received that are of kind k.
Received(k) == {i \in 1..Len(sreceived) : sreceived[i] = k}

\* C18: a streamed request follows Init -> Headers -> Chunk* -> (Done | Error):
\* a stream ends either with the translator's chunks for [DONE] or with one
\* error chunk but not both, and an error chunk is the last chunk before the
\* channel closes.
C18_DoneOrErrorNotBoth ==
    /\ ~(Received("done") # {} /\ Received("err") # {})
    /\ Cardinality(Received("err")) <= 1
    /\ \A i \in Received("err") : i = Len(sreceived)
    /\ \A i \in Received("done") : \A j \in i..Len(sreceived) : sreceived[j] = "done"

\* C19: for every request that ends in a terminal error (here: an error chunk
\* delivered on the stream, context cancellation included), the usage
\* reporter's failure publication has been invoked.
C19_ErrorChunkPublishesFailure == Received("err") # {} => sfailure

(***************************************************************************)
(*           Properties of the Codex HTTP non-streaming call               *)
(***************************************************************************)

\* The lines of the data read that are response.completed events.
Completed(data) ==
    {i \in 1..Len(data) : LineOf(data[i]).data /\ LineOf(data[i]).type = "response.completed"}

\* C20: for a non-streaming Codex HTTP call whose upstream SSE body contains a
\* response.completed event, the returned payload is derived from that event
\* and usage is published exactly once for the request.
C20_CompletedPublishedOnce ==
    xpc = "done" /\ Completed(xdata) # {} =>
        /\ ~xerr.set
        /\ xresp.from \in Completed(xdata)
        /\ xpublished = 1

====
